---- MODULE Spec2Model ----
(***************************************************************************)
(* A model of the Jack compiler front end: the tokenizer                   *)
(* (src/src/tokenizer.rs), the recursive-descent parser                    *)
(* (src/src/parser.rs) and the way process_file (src/src/main.rs) runs     *)
(* one after the other.                                                    *)
(*                                                                         *)
(* A Rust String is a sequence of characters; a character is a TLA+        *)
(* string of length one.  Indices in the code are 0-based, sequences here  *)
(* are 1-based: chars[i] in the code is chars[i + 1] here.                 *)
(***************************************************************************)
EXTENDS Integers, Sequences, FiniteSets, TLC

VARIABLES
    chars,        \* tokenizer: content.chars().collect()
    i,            \* tokenizer: the cursor into chars (0-based)
    line_number,  \* tokenizer: the running line counter
    tokens,       \* tokenizer: the Vec<Token> under construction
    tpc,          \* tokenizer: the loop whose head control stands at
    buf,          \* tokenizer: s / num_str / identifier of the running scan
    start_line,   \* tokenizer: start_line of the running block comment
    tres,         \* tokenizer: the returned Result<Vec<Token>, String>
    ptokens,      \* Parser.tokens
    position,     \* Parser.position
    stack,        \* parser: the call stack of parse_* activations
    ret,          \* parser: the value the last finished parse_* returned
    pres          \* parser: the Result<ClassNode, String> of parse_class

tvars == <<chars, i, line_number, tokens, tpc, buf, start_line, tres>>
pvars == <<ptokens, position, stack, ret, pres>>
vars == <<chars, i, line_number, tokens, tpc, buf, start_line, tres,
          ptokens, position, stack, ret, pres>>

(***************************************************************************)
(* Option and Result values.                                               *)
(***************************************************************************)
None == [some |-> FALSE]
Some(v) == [some |-> TRUE, val |-> v]

Pending == [tag |-> "Pending"]
Ok(v) == [tag |-> "Ok", val |-> v]
Err(e) == [tag |-> "Err", err |-> e]

(***************************************************************************)
(* Characters.                                                             *)
(***************************************************************************)
Digits == {"0", "1", "2", "3", "4", "5", "6", "7", "8", "9"}

LowerLetters == {"a", "b", "c", "d", "e", "f", "g", "h", "i", "j", "k", "l", "m",
                 "n", "o", "p", "q", "r", "s", "t", "u", "v", "w", "x", "y", "z"}

UpperLetters == {"A", "B", "C", "D", "E", "F", "G", "H", "I", "J", "K", "L", "M",
                 "N", "O", "P", "Q", "R", "S", "T", "U", "V", "W", "X", "Y", "Z"}

is_whitespace(c) == c \in {" ", "\n", "\t", "\r"}

is_ascii_digit(c) == c \in Digits

is_alphabetic(c) == c \in LowerLetters \cup UpperLetters

is_alphanumeric(c) == is_alphabetic(c) \/ c \in Digits

\* "{}()[].,;+-*/&|<>=~".contains(c)
SymbolCharsWithoutSemicolon ==
    {"{", "}", "(", ")", "[", "]", ".", ",", "+", "-", "*", "/", "&", "|", "<", ">",
     "=", "~"}

SymbolChars == {"{", "}", "(", ")", "[", "]", ".", ",", ";", "+", "-", "*", "/",
                "&", "|", "<", ">", "=", "~"}

DigitValue(c) ==
    CASE c = "0" -> 0 [] c = "1" -> 1 [] c = "2" -> 2 [] c = "3" -> 3
      [] c = "4" -> 4 [] c = "5" -> 5 [] c = "6" -> 6 [] c = "7" -> 7
      [] c = "8" -> 8 [] c = "9" -> 9

\* u16::MAX, the largest value num_str.parse::<u16>() accepts
U16Max == 65535

\* The fold of str::parse::<u16> over the digits read so far: acc * 10 + d,
\* checked against the range of u16 at every digit.
RECURSIVE ParseU16From(_, _, _)
ParseU16From(s, k, acc) ==
    IF k > Len(s) THEN Ok(acc)
    ELSE LET next == acc * 10 + DigitValue(s[k])
         IN  IF next > U16Max
             THEN Err("number too large to fit in target type")
             ELSE ParseU16From(s, k + 1, next)

\* num_str.parse::<u16>()
ParseU16(s) ==
    IF Len(s) = 0 THEN Err("cannot parse integer from empty string")
    ELSE ParseU16From(s, 1, 0)

(***************************************************************************)
(* Tokens.                                                                 *)
(***************************************************************************)
KwTok(k) == [tag |-> "Keyword", kw |-> k]
SymTok(c) == [tag |-> "Symbol", ch |-> c]
IntTok(n) == [tag |-> "IntConst", int |-> n]
StrTok(s) == [tag |-> "StrConst", str |-> s]
IdTok(s) == [tag |-> "Identifier", name |-> s]

Token(tt, v, ln) == [token_type |-> tt, value |-> v, line_number |-> ln]

\* match identifier.as_str() { "class" => ..., _ => Identifier }
KeywordOrIdentifier(id) ==
    CASE id = <<"c", "l", "a", "s", "s">> -> KwTok("Class")
      [] id = <<"c", "o", "n", "s", "t", "r", "u", "c", "t", "o", "r">> -> KwTok("Constructor")
      [] id = <<"f", "u", "n", "c", "t", "i", "o", "n">> -> KwTok("Function")
      [] id = <<"m", "e", "t", "h", "o", "d">> -> KwTok("Method")
      [] id = <<"f", "i", "e", "l", "d">> -> KwTok("Field")
      [] id = <<"s", "t", "a", "t", "i", "c">> -> KwTok("Static")
      [] id = <<"v", "a", "r">> -> KwTok("Var")
      [] id = <<"i", "n", "t">> -> KwTok("Int")
      [] id = <<"c", "h", "a", "r">> -> KwTok("Char")
      [] id = <<"b", "o", "o", "l", "e", "a", "n">> -> KwTok("Boolean")
      [] id = <<"v", "o", "i", "d">> -> KwTok("Void")
      [] id = <<"t", "r", "u", "e">> -> KwTok("True")
      [] id = <<"f", "a", "l", "s", "e">> -> KwTok("False")
      [] id = <<"n", "u", "l", "l">> -> KwTok("Null")
      [] id = <<"t", "h", "i", "s">> -> KwTok("This")
      [] id = <<"l", "e", "t">> -> KwTok("Let")
      [] id = <<"d", "o">> -> KwTok("Do")
      [] id = <<"i", "f">> -> KwTok("If")
      [] id = <<"e", "l", "s", "e">> -> KwTok("Else")
      [] id = <<"w", "h", "i", "l", "e">> -> KwTok("While")
      [] id = <<"r", "e", "t", "u", "r", "n">> -> KwTok("Return")
      [] OTHER -> IdTok(id)

(***************************************************************************)
(* The tokenizer.  One action per loop iteration: an iteration of the main *)
(* loop runs from its head to the next loop head control reaches (its own  *)
(* again, or the head of an inner scan); an iteration of an inner scan     *)
(* runs one character, and its exit runs the code after the scan up to the *)
(* `continue`.                                                             *)
(***************************************************************************)
NChars == Len(chars)
CharAt(k) == chars[k + 1]

\* `/` followed by `/` or `*`: the two comment openers
OpensLineComment == CharAt(i) = "/" /\ i + 1 < NChars /\ CharAt(i + 1) = "/"
OpensBlockComment == CharAt(i) = "/" /\ i + 1 < NChars /\ CharAt(i + 1) = "*"

TokRunning == tres = Pending

\* format!("Unterminated multi-line comment starting on line {}", start_line)
UnterminatedCommentAtCursor(line) ==
    [msg |-> "Unterminated multi-line comment starting on line", line |-> line_number]

UnterminatedComment(line) ==
    [msg |-> "Unterminated multi-line comment starting on line", line |-> line]

\* Token { token_type: TokenType::StrConst(s.clone()), value: s, line_number }
StringTokenWithQuotes(s, ln) ==
    Token(StrTok(<<"\"">> \o s \o <<"\"">>), <<"\"">> \o s \o <<"\"">>, ln)

StringToken(s, ln) == Token(StrTok(s), s, ln)

\* while i < chars.len() fails: Ok(tokens)
tok_end ==
    /\ TokRunning /\ tpc = "main" /\ ~(i < NChars)
    /\ tres' = Ok(tokens)
    /\ tpc' = "returned"
    /\ UNCHANGED <<chars, i, line_number, tokens, buf, start_line>>
    /\ UNCHANGED pvars

\* 1. Handle Whitespace, but without the `i += 1`
tok_whitespace_stuck ==
    /\ TokRunning /\ tpc = "main" /\ i < NChars
    /\ is_whitespace(CharAt(i))
    /\ line_number' = IF CharAt(i) = "\n" THEN line_number + 1 ELSE line_number
    /\ i' = i
    /\ UNCHANGED <<chars, tokens, tpc, buf, start_line, tres>>
    /\ UNCHANGED pvars

\* 1. Handle Whitespace
tok_whitespace ==
    /\ TokRunning /\ tpc = "main" /\ i < NChars
    /\ is_whitespace(CharAt(i))
    /\ line_number' = IF CharAt(i) = "\n" THEN line_number + 1 ELSE line_number
    /\ i' = i + 1
    /\ UNCHANGED <<chars, tokens, tpc, buf, start_line, tres>>
    /\ UNCHANGED pvars

\* 2. Handle Comments: `//` opens a single-line comment
tok_line_comment_open ==
    /\ TokRunning /\ tpc = "main" /\ i < NChars
    /\ ~is_whitespace(CharAt(i))
    /\ OpensLineComment
    /\ i' = i + 2
    /\ tpc' = "line_comment"
    /\ UNCHANGED <<chars, line_number, tokens, buf, start_line, tres>>
    /\ UNCHANGED pvars

\* tok_line_comment_scan, but stopping at a double quote as well
tok_line_comment_scan_to_quote ==
    /\ TokRunning /\ tpc = "line_comment"
    /\ IF i < NChars /\ CharAt(i) # "\n" /\ CharAt(i) # "\""
       THEN i' = i + 1 /\ tpc' = tpc
       ELSE i' = i /\ tpc' = "main"
    /\ UNCHANGED <<chars, line_number, tokens, buf, start_line, tres>>
    /\ UNCHANGED pvars

\* while i < chars.len() && chars[i] != '\n' { i += 1; }  continue;
tok_line_comment_scan ==
    /\ TokRunning /\ tpc = "line_comment"
    /\ IF i < NChars /\ CharAt(i) # "\n"
       THEN i' = i + 1 /\ tpc' = tpc
       ELSE i' = i /\ tpc' = "main"
    /\ UNCHANGED <<chars, line_number, tokens, buf, start_line, tres>>
    /\ UNCHANGED pvars

\* 2. Handle Comments: `/*` opens a multi-line comment
tok_block_comment_open ==
    /\ TokRunning /\ tpc = "main" /\ i < NChars
    /\ ~is_whitespace(CharAt(i))
    /\ OpensBlockComment
    /\ start_line' = line_number
    /\ i' = i + 2
    /\ tpc' = "block_comment"
    /\ UNCHANGED <<chars, line_number, tokens, buf, tres>>
    /\ UNCHANGED pvars

\* tok_block_comment_scan, but without `line_number += 1` on a newline
tok_block_comment_scan_uncounted ==
    /\ TokRunning /\ tpc = "block_comment"
    /\ IF i + 1 < NChars /\ ~(CharAt(i) = "*" /\ CharAt(i + 1) = "/")
       THEN /\ i' = i + 1
            /\ UNCHANGED <<line_number, tpc, tres>>
       ELSE IF i + 1 >= NChars
            THEN /\ tres' = Err(UnterminatedComment(start_line))
                 /\ tpc' = "returned"
                 /\ UNCHANGED <<i, line_number>>
            ELSE /\ i' = i + 2
                 /\ tpc' = "main"
                 /\ UNCHANGED <<line_number, tres>>
    /\ UNCHANGED <<chars, tokens, buf, start_line>>
    /\ UNCHANGED pvars

\* while i + 1 < chars.len() && !(chars[i] == '*' && chars[i + 1] == '/') {..}
\* then the unterminated check, or the consumption of "*/"
tok_block_comment_scan ==
    /\ TokRunning /\ tpc = "block_comment"
    /\ IF i + 1 < NChars /\ ~(CharAt(i) = "*" /\ CharAt(i + 1) = "/")
       THEN /\ line_number' = IF CharAt(i) = "\n" THEN line_number + 1 ELSE line_number
            /\ i' = i + 1
            /\ UNCHANGED <<tpc, tres>>
       ELSE IF i + 1 >= NChars
            THEN /\ tres' = Err(UnterminatedComment(start_line))
                 /\ tpc' = "returned"
                 /\ UNCHANGED <<i, line_number>>
            ELSE /\ i' = i + 2
                 /\ tpc' = "main"
                 /\ UNCHANGED <<line_number, tres>>
    /\ UNCHANGED <<chars, tokens, buf, start_line>>
    /\ UNCHANGED pvars

\* The character at the cursor starts no comment and is no whitespace
AtTokenStart ==
    /\ TokRunning /\ tpc = "main" /\ i < NChars
    /\ ~is_whitespace(CharAt(i))
    /\ ~OpensLineComment
    /\ ~OpensBlockComment

\* 3. Handle Symbols
tok_symbol ==
    /\ AtTokenStart
    /\ CharAt(i) \in SymbolChars
    /\ tokens' = Append(tokens, Token(SymTok(CharAt(i)), <<CharAt(i)>>, line_number))
    /\ i' = i + 1
    /\ UNCHANGED <<chars, line_number, tpc, buf, start_line, tres>>
    /\ UNCHANGED pvars

\* 4. Handle String Constants: the opening quote
tok_string_open ==
    /\ AtTokenStart
    /\ CharAt(i) \notin SymbolChars
    /\ CharAt(i) = "\""
    /\ i' = i + 1
    /\ buf' = <<>>
    /\ tpc' = "string"
    /\ UNCHANGED <<chars, line_number, tokens, start_line, tres>>
    /\ UNCHANGED pvars

\* while i < chars.len() && chars[i] != '"' {..}, then the end-of-input check
\* and the push of the StrConst token
tok_string_scan ==
    /\ TokRunning /\ tpc = "string"
    /\ IF i < NChars /\ CharAt(i) # "\""
       THEN IF CharAt(i) = "\n"
            THEN /\ tres' = Err([msg |-> "Unterminated string on line",
                                 line |-> line_number])
                 /\ tpc' = "returned"
                 /\ UNCHANGED <<i, buf, tokens>>
            ELSE /\ buf' = Append(buf, CharAt(i))
                 /\ i' = i + 1
                 /\ UNCHANGED <<tpc, tres, tokens>>
       ELSE IF i >= NChars
            THEN /\ tres' = Err([msg |-> "Unterminated string on line",
                                 line |-> line_number])
                 /\ tpc' = "returned"
                 /\ UNCHANGED <<i, buf, tokens>>
            ELSE /\ i' = i + 1
                 /\ tokens' = Append(tokens, StringToken(buf, line_number))
                 /\ tpc' = "main"
                 /\ UNCHANGED <<buf, tres>>
    /\ UNCHANGED <<chars, line_number, start_line>>
    /\ UNCHANGED pvars

\* 5. Handle Integer Constants: num_str = String::new()
tok_integer_open ==
    /\ AtTokenStart
    /\ CharAt(i) \notin SymbolChars
    /\ CharAt(i) # "\""
    /\ is_ascii_digit(CharAt(i))
    /\ buf' = <<>>
    /\ tpc' = "integer"
    /\ UNCHANGED <<chars, i, line_number, tokens, start_line, tres>>
    /\ UNCHANGED pvars

\* while i < chars.len() && chars[i].is_ascii_digit() {..}, then the parse
\* into u16 and the push of the IntConst token
tok_integer_scan ==
    /\ TokRunning /\ tpc = "integer"
    /\ IF i < NChars /\ is_ascii_digit(CharAt(i))
       THEN /\ buf' = Append(buf, CharAt(i))
            /\ i' = i + 1
            /\ UNCHANGED <<tpc, tres, tokens>>
       ELSE LET value == ParseU16(buf)
            IN  IF value.tag = "Err"
                THEN /\ tres' = Err([msg |-> "Invalid integer", text |-> buf,
                                     line |-> line_number, cause |-> value.err])
                     /\ tpc' = "returned"
                     /\ UNCHANGED <<i, buf, tokens>>
                ELSE /\ tokens' = Append(tokens, Token(IntTok(value.val), buf, line_number))
                     /\ tpc' = "main"
                     /\ UNCHANGED <<i, buf, tres>>
    /\ UNCHANGED <<chars, line_number, start_line>>
    /\ UNCHANGED pvars

\* 6. Handle Keywords and Identifiers: identifier = String::new()
tok_identifier_open ==
    /\ AtTokenStart
    /\ CharAt(i) \notin SymbolChars
    /\ CharAt(i) # "\""
    /\ ~is_ascii_digit(CharAt(i))
    /\ is_alphabetic(CharAt(i)) \/ CharAt(i) = "_"
    /\ buf' = <<>>
    /\ tpc' = "identifier"
    /\ UNCHANGED <<chars, i, line_number, tokens, start_line, tres>>
    /\ UNCHANGED pvars

\* while i < chars.len() && (chars[i].is_alphanumeric() || chars[i] == '_') {..},
\* then the reserved-word lookup and the push of the token
tok_identifier_scan ==
    /\ TokRunning /\ tpc = "identifier"
    /\ IF i < NChars /\ (is_alphanumeric(CharAt(i)) \/ CharAt(i) = "_")
       THEN /\ buf' = Append(buf, CharAt(i))
            /\ i' = i + 1
            /\ UNCHANGED <<tpc, tokens>>
       ELSE /\ tokens' = Append(tokens, Token(KeywordOrIdentifier(buf), buf, line_number))
            /\ tpc' = "main"
            /\ UNCHANGED <<i, buf>>
    /\ UNCHANGED <<chars, line_number, start_line, tres>>
    /\ UNCHANGED pvars

\* 7. Handle any other character
tok_invalid_character ==
    /\ AtTokenStart
    /\ CharAt(i) \notin SymbolChars
    /\ CharAt(i) # "\""
    /\ ~is_ascii_digit(CharAt(i))
    /\ ~(is_alphabetic(CharAt(i)) \/ CharAt(i) = "_")
    /\ tres' = Err([msg |-> "Invalid character", ch |-> CharAt(i), line |-> line_number])
    /\ tpc' = "returned"
    /\ UNCHANGED <<chars, i, line_number, tokens, buf, start_line>>
    /\ UNCHANGED pvars

\* pub fn tokenizer(content: &str) -> Result<Vec<Token>, String>
tokenizer ==
    \/ tok_end
    \/ tok_whitespace
    \/ tok_line_comment_open
    \/ tok_line_comment_scan
    \/ tok_block_comment_open
    \/ tok_block_comment_scan
    \/ tok_symbol
    \/ tok_string_open
    \/ tok_string_scan
    \/ tok_integer_open
    \/ tok_integer_scan
    \/ tok_identifier_open
    \/ tok_identifier_scan
    \/ tok_invalid_character

\* The state of tokenizer(content) at its first loop test
TokenizerStart(content) ==
    /\ chars = content
    /\ i = 0
    /\ line_number = 1
    /\ tokens = <<>>
    /\ tpc = "main"
    /\ buf = <<>>
    /\ start_line = 0
    /\ tres = Pending

\* No Parser exists before process_file builds one
ParserIdle ==
    /\ ptokens = <<>>
    /\ position = 0
    /\ stack = <<>>
    /\ ret = None
    /\ pres = Pending

(***************************************************************************)
(* The AST (src/src/parser.rs, lines 4-122).                               *)
(***************************************************************************)
ClassNode(name, var_decs, subroutine_decs) ==
    [name |-> name, var_decs |-> var_decs, subroutine_decs |-> subroutine_decs]

ClassVarDecNode(kind, var_type, names) ==
    [kind |-> kind, var_type |-> var_type, names |-> names]

TypeKeyword(t) == [tag |-> t]
TypeClassName(name) == [tag |-> "ClassName", name |-> name]

SubroutineDecNode(kind, return_type, name, parameters, body) ==
    [kind |-> kind, return_type |-> return_type, name |-> name,
     parameters |-> parameters, body |-> body]

SubroutineBodyNode(var_decs, statements) ==
    [var_decs |-> var_decs, statements |-> statements]

VarDecNode(var_type, names) == [var_type |-> var_type, names |-> names]

StatementNode(tag, node) == [tag |-> tag, node |-> node]

LetStatementNode(var_name, index_expr, value_expr) ==
    [var_name |-> var_name, index_expr |-> index_expr, value_expr |-> value_expr]

IfStatementNode(condition, if_block, else_block) ==
    [condition |-> condition, if_block |-> if_block, else_block |-> else_block]

WhileStatementNode(condition, body) == [condition |-> condition, body |-> body]

DoStatementNode(call) == [call |-> call]

ReturnStatementNode(value) == [value |-> value]

ExpressionNode(initial_term, operations) ==
    [initial_term |-> initial_term, operations |-> operations]

TermIntConst(n) == [tag |-> "IntConst", int |-> n]
TermStrConst(s) == [tag |-> "StrConst", str |-> s]
TermKeywordConst(k) == [tag |-> "KeywordConst", kw |-> k]
TermVarName(name) == [tag |-> "VarName", name |-> name]
TermArrayAccess(name, expr) == [tag |-> "ArrayAccess", name |-> name, index |-> expr]
TermSubroutineCall(call) == [tag |-> "SubroutineCall", call |-> call]
TermParenthesized(expr) == [tag |-> "Parenthesized", expr |-> expr]
TermUnaryOp(op, term) == [tag |-> "UnaryOp", op |-> op, term |-> term]

SubroutineCallNode(receiver, name, args) ==
    [receiver |-> receiver, name |-> name, args |-> args]

(***************************************************************************)
(* The parser's utility functions.  Each is a function of the Parser       *)
(* (ptokens, position); one that may advance returns the new position      *)
(* beside its result.                                                      *)
(***************************************************************************)
\* self.tokens.get(self.position)
peek == IF position < Len(ptokens) THEN Some(ptokens[position + 1]) ELSE None

\* self.tokens.get(self.position + 1)
peek_next == IF position + 1 < Len(ptokens) THEN Some(ptokens[position + 2]) ELSE None

\* advance, but with `self.position += 2`
advance_two_tokens == IF position < Len(ptokens) THEN position + 2 ELSE position

\* if self.position < self.tokens.len() { self.position += 1; }
advance == IF position < Len(ptokens) THEN position + 1 ELSE position

Outcome(res, pos) == [res |-> res, pos |-> pos]

\* expect_identifier, but stepping over the token it rejects
expect_identifier_consuming ==
    IF peek.some
    THEN IF peek.val.token_type.tag = "Identifier"
         THEN Outcome(Ok(peek.val.token_type.name), advance)
         ELSE Outcome(Err([msg |-> "Expected identifier, but found",
                           found |-> peek.val]), advance)
    ELSE Outcome(Err([msg |-> "Expected identifier, but found EOF"]), position)

expect_identifier ==
    IF peek.some
    THEN IF peek.val.token_type.tag = "Identifier"
         THEN Outcome(Ok(peek.val.token_type.name), advance)
         ELSE Outcome(Err([msg |-> "Expected identifier, but found",
                           found |-> peek.val]), position)
    ELSE Outcome(Err([msg |-> "Expected identifier, but found EOF"]), position)

expect_keyword(expected) ==
    IF peek.some
    THEN IF peek.val.token_type.tag = "Keyword" /\ peek.val.token_type.kw = expected
         THEN Outcome(Ok(TRUE), advance)
         ELSE Outcome(Err([msg |-> "Expected keyword, but found",
                           expected |-> expected, found |-> peek.val]), position)
    ELSE Outcome(Err([msg |-> "Expected keyword, but found EOF",
                      expected |-> expected]), position)

expect_one_of_keywords(expected) ==
    IF peek.some
    THEN IF peek.val.token_type.tag = "Keyword" /\ peek.val.token_type.kw \in expected
         THEN Outcome(Ok(peek.val.token_type.kw), advance)
         ELSE Outcome(Err([msg |-> "Expected one of, but found",
                           expected |-> expected, found |-> peek.val]), position)
    ELSE Outcome(Err([msg |-> "Expected one of, but found EOF",
                      expected |-> expected]), position)

Matched(matched, pos) == [matched |-> matched, pos |-> pos]

\* match_keyword, but leaving the matched keyword unconsumed
match_keyword_without_advance(expected) ==
    IF peek.some /\ peek.val.token_type.tag = "Keyword"
                 /\ peek.val.token_type.kw = expected
    THEN Matched(TRUE, position)
    ELSE Matched(FALSE, position)

match_keyword(expected) ==
    IF peek.some /\ peek.val.token_type.tag = "Keyword"
                 /\ peek.val.token_type.kw = expected
    THEN Matched(TRUE, advance)
    ELSE Matched(FALSE, position)

peek_keyword(keywords) ==
    IF peek.some /\ peek.val.token_type.tag = "Keyword"
    THEN peek.val.token_type.kw \in keywords
    ELSE FALSE

expect_symbol(expected) ==
    IF peek.some
    THEN IF peek.val.token_type = SymTok(expected)
         THEN Outcome(Ok(TRUE), advance)
         ELSE Outcome(Err([msg |-> "Expected symbol, but found",
                           expected |-> expected, found |-> peek.val]), position)
    ELSE Outcome(Err([msg |-> "Expected symbol, but found EOF",
                      expected |-> expected]), position)

match_symbol(expected) ==
    IF peek.some /\ peek.val.token_type = SymTok(expected)
    THEN Matched(TRUE, advance)
    ELSE Matched(FALSE, position)

peek_symbol(symbol) ==
    IF peek.some /\ peek.val.token_type.tag = "Symbol"
    THEN peek.val.token_type.ch = symbol
    ELSE FALSE

\* peek_next_symbol, but looking at the current token
peek_next_symbol_at_cursor(symbol) ==
    IF peek.some /\ peek.val.token_type.tag = "Symbol"
    THEN peek.val.token_type.ch = symbol
    ELSE FALSE

peek_next_symbol(symbol) ==
    IF peek_next.some /\ peek_next.val.token_type.tag = "Symbol"
    THEN peek_next.val.token_type.ch = symbol
    ELSE FALSE

\* "+-*/&|<>=".contains(s)
BinaryOpsWithoutEquals == {"+", "-", "*", "/", "&", "|", "<", ">"}

BinaryOps == {"+", "-", "*", "/", "&", "|", "<", ">", "="}

peek_op ==
    IF peek.some /\ peek.val.token_type.tag = "Symbol"
                 /\ peek.val.token_type.ch \in BinaryOps
    THEN Some(peek.val.token_type.ch)
    ELSE None

(***************************************************************************)
(* The call stack.  An activation of parse_* is a frame: the function, the *)
(* point in its body where control stands, and its local variables.  One   *)
(* step runs the top frame up to its next call, return or failure, and     *)
(* moves the cursor over at most one token.                                *)
(***************************************************************************)
Frame(fn, pc, v) == [fn |-> fn, pc |-> pc, v |-> v]

Top == stack[Len(stack)]
Callers == SubSeq(stack, 1, Len(stack) - 1)

Running(fn) == pres = Pending /\ stack # <<>> /\ Top.fn = fn

NoLocals == <<>>

\* control moves on inside the running function
Goto(pos, pc, v) ==
    /\ position' = pos
    /\ stack' = Append(Callers, Frame(Top.fn, pc, v))
    /\ UNCHANGED <<ptokens, ret, pres>>

\* self.callee(): the caller resumes at pc once the callee has returned
Call(pos, pc, v, callee) ==
    /\ position' = pos
    /\ stack' = Callers \o <<Frame(Top.fn, pc, v), Frame(callee, "start", NoLocals)>>
    /\ UNCHANGED <<ptokens, ret, pres>>

\* return Ok(val); the return of parse_class is the result of the parse
Return(pos, val) ==
    /\ position' = pos
    /\ stack' = Callers
    /\ ret' = val
    /\ pres' = IF Callers = <<>> THEN Ok(val) ELSE pres
    /\ UNCHANGED ptokens

\* return Err(e): every caller hands the error on with `?`
Fail(pos, e) ==
    /\ position' = pos
    /\ pres' = Err(e)
    /\ stack' = <<>>
    /\ UNCHANGED <<ptokens, ret>>

\* vec.push(x)
PushFront(vec, x) == <<x>> \o vec

Push(vec, x) == Append(vec, x)

\* outcome?; then
Try(outcome, then) ==
    IF outcome.res.tag = "Err" THEN Fail(outcome.pos, outcome.res.err) ELSE then

(***************************************************************************)
(* The productions (src/src/parser.rs, lines 136-427).                     *)
(***************************************************************************)
ClassVarKindOf(k) == CASE k = "Static" -> "Static" [] k = "Field" -> "Field"

SubroutineKindFunctionAsMethod(k) ==
    CASE k = "Constructor" -> "Constructor"
      [] k = "Function" -> "Method"
      [] k = "Method" -> "Method"

SubroutineKindOf(k) ==
    CASE k = "Constructor" -> "Constructor"
      [] k = "Function" -> "Function"
      [] k = "Method" -> "Method"

parse_class ==
    /\ Running("parse_class")
    /\ UNCHANGED tvars
    /\ LET v == Top.v
       IN CASE Top.pc = "start" ->
                 LET r == expect_keyword("Class")
                 IN  Try(r, Goto(r.pos, "name", v))
            [] Top.pc = "name" ->
                 LET r == expect_identifier
                 IN  Try(r, Goto(r.pos, "lbrace", [name |-> r.res.val]))
            [] Top.pc = "lbrace" ->
                 LET r == expect_symbol("{")
                 IN  Try(r, Goto(r.pos, "var_decs", [name |-> v.name, var_decs |-> <<>>]))
            [] Top.pc = "var_decs" ->
                 IF peek_keyword({"Static", "Field"})
                 THEN Call(position, "var_decs_push", v, "parse_class_var_dec")
                 ELSE Goto(position, "subroutine_decs",
                           [name |-> v.name, var_decs |-> v.var_decs,
                            subroutine_decs |-> <<>>])
            [] Top.pc = "var_decs_push" ->
                 Goto(position, "var_decs", [v EXCEPT !.var_decs = Push(@, ret)])
            [] Top.pc = "subroutine_decs" ->
                 IF peek_keyword({"Constructor", "Function", "Method"})
                 THEN Call(position, "subroutine_decs_push", v, "parse_subroutine_dec")
                 ELSE LET r == expect_symbol("}")
                      IN  Try(r, Return(r.pos,
                                  ClassNode(v.name, v.var_decs, v.subroutine_decs)))
            [] Top.pc = "subroutine_decs_push" ->
                 Goto(position, "subroutine_decs",
                      [v EXCEPT !.subroutine_decs = Push(@, ret)])

parse_class_var_dec ==
    /\ Running("parse_class_var_dec")
    /\ UNCHANGED tvars
    /\ LET v == Top.v
       IN CASE Top.pc = "start" ->
                 LET r == expect_one_of_keywords({"Static", "Field"})
                 IN  Try(r, Call(r.pos, "var_type",
                                 [kind |-> ClassVarKindOf(r.res.val)], "parse_type"))
            [] Top.pc = "var_type" ->
                 LET r == expect_identifier
                 IN  Try(r, Goto(r.pos, "names",
                                 [kind |-> v.kind, var_type |-> ret,
                                  names |-> <<r.res.val>>]))
            [] Top.pc = "names" ->
                 LET m == match_symbol(",")
                 IN  IF m.matched
                     THEN Goto(m.pos, "name", v)
                     ELSE LET r == expect_symbol(";")
                          IN  Try(r, Return(r.pos,
                                      ClassVarDecNode(v.kind, v.var_type, v.names)))
            [] Top.pc = "name" ->
                 LET r == expect_identifier
                 IN  Try(r, Goto(r.pos, "names",
                                 [v EXCEPT !.names = Push(@, r.res.val)]))

parse_type ==
    /\ Running("parse_type")
    /\ UNCHANGED tvars
    /\ IF peek.some
       THEN LET tt == peek.val.token_type
            IN CASE tt.tag = "Keyword" ->
                      CASE tt.kw = "Int" -> Return(advance, TypeKeyword("Int"))
                        [] tt.kw = "Char" -> Return(advance, TypeKeyword("Char"))
                        [] tt.kw = "Boolean" -> Return(advance, TypeKeyword("Boolean"))
                        [] OTHER -> Fail(position, [msg |-> "Expected type keyword, found",
                                          found_keyword |-> tt.kw])
                 [] tt.tag = "Identifier" ->
                      LET r == expect_identifier
                      IN  Try(r, Return(r.pos, TypeClassName(r.res.val)))
                 [] OTHER -> Fail(position, [msg |-> "Expected type, found", found |-> peek.val])
       ELSE Fail(position, [msg |-> "Expected type, found EOF"])

parse_subroutine_dec ==
    /\ Running("parse_subroutine_dec")
    /\ UNCHANGED tvars
    /\ LET v == Top.v
       IN CASE Top.pc = "start" ->
                 LET r == expect_one_of_keywords({"Constructor", "Function", "Method"})
                 IN  Try(r, Goto(r.pos, "return_type",
                                 [kind |-> SubroutineKindOf(r.res.val)]))
            [] Top.pc = "return_type" ->
                 LET m == match_keyword("Void")
                 IN  IF m.matched
                     THEN Goto(m.pos, "name", [kind |-> v.kind, return_type |-> None])
                     ELSE Call(position, "return_type_some", v, "parse_type")
            [] Top.pc = "return_type_some" ->
                 Goto(position, "name", [kind |-> v.kind, return_type |-> Some(ret)])
            [] Top.pc = "name" ->
                 LET r == expect_identifier
                 IN  Try(r, Goto(r.pos, "lparen",
                                 [kind |-> v.kind, return_type |-> v.return_type,
                                  name |-> r.res.val]))
            [] Top.pc = "lparen" ->
                 LET r == expect_symbol("(")
                 IN  Try(r, Call(r.pos, "rparen", v, "parse_parameter_list"))
            [] Top.pc = "rparen" ->
                 LET r == expect_symbol(")")
                 IN  Try(r, Call(r.pos, "body",
                                 [kind |-> v.kind, return_type |-> v.return_type,
                                  name |-> v.name, parameters |-> ret],
                                 "parse_subroutine_body"))
            [] Top.pc = "body" ->
                 Return(position,
                        SubroutineDecNode(v.kind, v.return_type, v.name,
                                          v.parameters, ret))

parse_parameter_list ==
    /\ Running("parse_parameter_list")
    /\ UNCHANGED tvars
    /\ LET v == Top.v
       IN CASE Top.pc = "start" ->
                 IF ~peek_symbol(")")
                 THEN Call(position, "p_name", [params |-> <<>>], "parse_type")
                 ELSE Return(position, <<>>)
            [] Top.pc = "p_name" ->
                 LET r == expect_identifier
                 IN  Try(r, Goto(r.pos, "more",
                                 [params |-> Push(v.params, <<ret, r.res.val>>)]))
            [] Top.pc = "more" ->
                 LET m == match_symbol(",")
                 IN  IF m.matched
                     THEN Call(m.pos, "p_name", v, "parse_type")
                     ELSE Return(position, v.params)

parse_subroutine_body ==
    /\ Running("parse_subroutine_body")
    /\ UNCHANGED tvars
    /\ LET v == Top.v
       IN CASE Top.pc = "start" ->
                 LET r == expect_symbol("{")
                 IN  Try(r, Goto(r.pos, "var_decs", [var_decs |-> <<>>]))
            [] Top.pc = "var_decs" ->
                 IF peek_keyword({"Var"})
                 THEN Call(position, "var_decs_push", v, "parse_var_dec")
                 ELSE Call(position, "rbrace", v, "parse_statements")
            [] Top.pc = "var_decs_push" ->
                 Goto(position, "var_decs", [v EXCEPT !.var_decs = Push(@, ret)])
            [] Top.pc = "rbrace" ->
                 LET r == expect_symbol("}")
                 IN  Try(r, Return(r.pos, SubroutineBodyNode(v.var_decs, ret)))

parse_var_dec ==
    /\ Running("parse_var_dec")
    /\ UNCHANGED tvars
    /\ LET v == Top.v
       IN CASE Top.pc = "start" ->
                 LET r == expect_keyword("Var")
                 IN  Try(r, Call(r.pos, "var_type", v, "parse_type"))
            [] Top.pc = "var_type" ->
                 LET r == expect_identifier
                 IN  Try(r, Goto(r.pos, "names",
                                 [var_type |-> ret, names |-> <<r.res.val>>]))
            [] Top.pc = "names" ->
                 LET m == match_symbol(",")
                 IN  IF m.matched
                     THEN Goto(m.pos, "name", v)
                     ELSE LET r == expect_symbol(";")
                          IN  Try(r, Return(r.pos, VarDecNode(v.var_type, v.names)))
            [] Top.pc = "name" ->
                 LET r == expect_identifier
                 IN  Try(r, Goto(r.pos, "names",
                                 [v EXCEPT !.names = Push(@, r.res.val)]))

StatementKeywords == {"Let", "If", "While", "Do", "Return"}

is_statement == peek_keyword(StatementKeywords)

parse_statements ==
    /\ Running("parse_statements")
    /\ UNCHANGED tvars
    /\ LET statements == CASE Top.pc = "start" -> <<>>
                           [] Top.pc = "push" -> Push(Top.v.statements, ret)
       IN  IF is_statement
           THEN Call(position, "push", [statements |-> statements], "parse_statement")
           ELSE Return(position, statements)

parse_statement ==
    /\ Running("parse_statement")
    /\ UNCHANGED tvars
    /\ CASE Top.pc = "start" ->
              IF peek.some /\ peek.val.token_type.tag = "Keyword"
              THEN LET k == peek.val.token_type.kw
                   IN CASE k = "Let" ->
                             Call(position, "wrap", [tag |-> "Let"], "parse_let_statement")
                        [] k = "If" ->
                             Call(position, "wrap", [tag |-> "If"], "parse_if_statement")
                        [] k = "While" ->
                             Call(position, "wrap", [tag |-> "While"], "parse_while_statement")
                        [] k = "Do" ->
                             Call(position, "wrap", [tag |-> "Do"], "parse_do_statement")
                        [] k = "Return" ->
                             Call(position, "wrap", [tag |-> "Return"], "parse_return_statement")
                        [] OTHER ->
                             Fail(position, [msg |-> "Expected statement keyword, found",
                                   found_keyword |-> k])
              ELSE Fail(position, [msg |-> "Expected statement, but found nothing or not a keyword"])
         [] Top.pc = "wrap" ->
              Return(position, StatementNode(Top.v.tag, ret))

parse_let_statement ==
    /\ Running("parse_let_statement")
    /\ UNCHANGED tvars
    /\ LET v == Top.v
       IN CASE Top.pc = "start" ->
                 LET r == expect_keyword("Let")
                 IN  Try(r, Goto(r.pos, "var_name", v))
            [] Top.pc = "var_name" ->
                 LET r == expect_identifier
                 IN  Try(r, Goto(r.pos, "index",
                                 [var_name |-> r.res.val, index_expr |-> None]))
            [] Top.pc = "index" ->
                 LET m == match_symbol("[")
                 IN  IF m.matched
                     THEN Call(m.pos, "rbracket", v, "parse_expression")
                     ELSE LET r == expect_symbol("=")
                          IN  Try(r, Call(r.pos, "semicolon", v, "parse_expression"))
            [] Top.pc = "rbracket" ->
                 LET r == expect_symbol("]")
                 IN  Try(r, Goto(r.pos, "equals",
                                 [v EXCEPT !.index_expr = Some(ret)]))
            [] Top.pc = "equals" ->
                 LET r == expect_symbol("=")
                 IN  Try(r, Call(r.pos, "semicolon", v, "parse_expression"))
            [] Top.pc = "semicolon" ->
                 LET r == expect_symbol(";")
                 IN  Try(r, Return(r.pos,
                                   LetStatementNode(v.var_name, v.index_expr, ret)))

parse_if_statement ==
    /\ Running("parse_if_statement")
    /\ UNCHANGED tvars
    /\ LET v == Top.v
       IN CASE Top.pc = "start" ->
                 LET r == expect_keyword("If")
                 IN  Try(r, Goto(r.pos, "lparen", v))
            [] Top.pc = "lparen" ->
                 LET r == expect_symbol("(")
                 IN  Try(r, Call(r.pos, "rparen", v, "parse_expression"))
            [] Top.pc = "rparen" ->
                 LET r == expect_symbol(")")
                 IN  Try(r, Goto(r.pos, "lbrace", [condition |-> ret]))
            [] Top.pc = "lbrace" ->
                 LET r == expect_symbol("{")
                 IN  Try(r, Call(r.pos, "rbrace", v, "parse_statements"))
            [] Top.pc = "rbrace" ->
                 LET r == expect_symbol("}")
                 IN  Try(r, Goto(r.pos, "else",
                                 [condition |-> v.condition, if_block |-> ret,
                                  else_block |-> None]))
            [] Top.pc = "else" ->
                 LET m == match_keyword("Else")
                 IN  IF m.matched
                     THEN Goto(m.pos, "else_lbrace", v)
                     ELSE Return(position,
                                 IfStatementNode(v.condition, v.if_block, v.else_block))
            [] Top.pc = "else_lbrace" ->
                 LET r == expect_symbol("{")
                 IN  Try(r, Call(r.pos, "else_rbrace", v, "parse_statements"))
            [] Top.pc = "else_rbrace" ->
                 LET r == expect_symbol("}")
                 IN  Try(r, Return(r.pos,
                                   IfStatementNode(v.condition, v.if_block, Some(ret))))

parse_while_statement ==
    /\ Running("parse_while_statement")
    /\ UNCHANGED tvars
    /\ LET v == Top.v
       IN CASE Top.pc = "start" ->
                 LET r == expect_keyword("While")
                 IN  Try(r, Goto(r.pos, "lparen", v))
            [] Top.pc = "lparen" ->
                 LET r == expect_symbol("(")
                 IN  Try(r, Call(r.pos, "rparen", v, "parse_expression"))
            [] Top.pc = "rparen" ->
                 LET r == expect_symbol(")")
                 IN  Try(r, Goto(r.pos, "lbrace", [condition |-> ret]))
            [] Top.pc = "lbrace" ->
                 LET r == expect_symbol("{")
                 IN  Try(r, Call(r.pos, "rbrace", v, "parse_statements"))
            [] Top.pc = "rbrace" ->
                 LET r == expect_symbol("}")
                 IN  Try(r, Return(r.pos, WhileStatementNode(v.condition, ret)))

parse_do_statement ==
    /\ Running("parse_do_statement")
    /\ UNCHANGED tvars
    /\ CASE Top.pc = "start" ->
              LET r == expect_keyword("Do")
              IN  Try(r, Call(r.pos, "semicolon", Top.v, "parse_subroutine_call"))
         [] Top.pc = "semicolon" ->
              LET r == expect_symbol(";")
              IN  Try(r, Return(r.pos, DoStatementNode(ret)))

parse_return_statement ==
    /\ Running("parse_return_statement")
    /\ UNCHANGED tvars
    /\ CASE Top.pc = "start" ->
              LET r == expect_keyword("Return")
              IN  Try(r, Goto(r.pos, "value", Top.v))
         [] Top.pc = "value" ->
              IF ~peek_symbol(";")
              THEN Call(position, "semicolon", Top.v, "parse_expression")
              ELSE LET r == expect_symbol(";")
                   IN  Try(r, Return(r.pos, ReturnStatementNode(None)))
         [] Top.pc = "semicolon" ->
              LET r == expect_symbol(";")
              IN  Try(r, Return(r.pos, ReturnStatementNode(Some(ret))))

parse_expression ==
    /\ Running("parse_expression")
    /\ UNCHANGED tvars
    /\ CASE Top.pc = "start" ->
              Call(position, "initial_term", Top.v, "parse_term")
         [] Top.pc \in {"initial_term", "push"} ->
              LET e == IF Top.pc = "initial_term"
                       THEN ExpressionNode(ret, <<>>)
                       ELSE ExpressionNode(Top.v.initial_term,
                                           Push(Top.v.operations, <<Top.v.op, ret>>))
                  op == peek_op
              IN  IF op.some
                  THEN Call(advance, "push",
                            [initial_term |-> e.initial_term,
                             operations |-> e.operations, op |-> op.val],
                            "parse_term")
                  ELSE Return(position, e)

parse_term ==
    /\ Running("parse_term")
    /\ UNCHANGED tvars
    /\ LET v == Top.v
       IN CASE Top.pc = "start" ->
                 IF peek.some
                 THEN LET tt == peek.val.token_type
                      IN CASE tt.tag = "IntConst" ->
                                Return(advance, TermIntConst(tt.int))
                           [] tt.tag = "StrConst" ->
                                Return(advance, TermStrConst(tt.str))
                           [] tt.tag = "Keyword"
                                /\ tt.kw \in {"True", "False", "Null", "This"} ->
                                Return(advance, TermKeywordConst(tt.kw))
                           [] tt.tag = "Identifier" ->
                                IF peek_next_symbol(".") \/ peek_next_symbol("(")
                                THEN Call(position, "call", v, "parse_subroutine_call")
                                ELSE IF peek_next_symbol("[")
                                THEN LET r == expect_identifier
                                     IN  Try(r, Goto(r.pos, "array_lbracket",
                                                     [name |-> r.res.val]))
                                ELSE LET r == expect_identifier
                                     IN  Try(r, Return(r.pos, TermVarName(r.res.val)))
                           [] tt = SymTok("(") ->
                                Call(advance, "rparen", v, "parse_expression")
                           [] tt = SymTok("-") \/ tt = SymTok("~") ->
                                Call(advance, "unary", [op |-> tt.ch], "parse_term")
                           [] OTHER ->
                                Fail(position, [msg |-> "Unexpected token in term",
                                      found |-> peek.val])
                 ELSE Fail(position, [msg |-> "Unexpected EOF in term"])
            [] Top.pc = "call" ->
                 Return(position, TermSubroutineCall(ret))
            [] Top.pc = "array_lbracket" ->
                 LET r == expect_symbol("[")
                 IN  Try(r, Call(r.pos, "array_rbracket", v, "parse_expression"))
            [] Top.pc = "array_rbracket" ->
                 LET r == expect_symbol("]")
                 IN  Try(r, Return(r.pos, TermArrayAccess(v.name, ret)))
            [] Top.pc = "rparen" ->
                 LET r == expect_symbol(")")
                 IN  Try(r, Return(r.pos, TermParenthesized(ret)))
            [] Top.pc = "unary" ->
                 Return(position, TermUnaryOp(v.op, ret))

parse_subroutine_call ==
    /\ Running("parse_subroutine_call")
    /\ UNCHANGED tvars
    /\ LET v == Top.v
       IN CASE Top.pc = "start" ->
                 LET r == expect_identifier
                 IN  Try(r, Goto(r.pos, "dot", [first_identifier |-> r.res.val]))
            [] Top.pc = "dot" ->
                 LET m == match_symbol(".")
                 IN  IF m.matched
                     THEN Goto(m.pos, "name", v)
                     ELSE LET r == expect_symbol("(")
                          IN  Try(r, Call(r.pos, "rparen",
                                          [receiver |-> None,
                                           name |-> v.first_identifier],
                                          "parse_expression_list"))
            [] Top.pc = "name" ->
                 LET r == expect_identifier
                 IN  Try(r, Goto(r.pos, "lparen",
                                 [receiver |-> Some(v.first_identifier),
                                  name |-> r.res.val]))
            [] Top.pc = "lparen" ->
                 LET r == expect_symbol("(")
                 IN  Try(r, Call(r.pos, "rparen", v, "parse_expression_list"))
            [] Top.pc = "rparen" ->
                 LET r == expect_symbol(")")
                 IN  Try(r, Return(r.pos, SubroutineCallNode(v.receiver, v.name, ret)))

parse_expression_list ==
    /\ Running("parse_expression_list")
    /\ UNCHANGED tvars
    /\ CASE Top.pc = "start" ->
              IF ~peek_symbol(")")
              THEN Call(position, "push", [expressions |-> <<>>], "parse_expression")
              ELSE Return(position, <<>>)
         [] Top.pc = "push" ->
              LET expressions == Push(Top.v.expressions, ret)
                  m == match_symbol(",")
              IN  IF m.matched
                  THEN Call(m.pos, "push", [expressions |-> expressions],
                            "parse_expression")
                  ELSE Return(position, expressions)

\* One step of the running parse
parser ==
    \/ parse_class
    \/ parse_class_var_dec
    \/ parse_type
    \/ parse_subroutine_dec
    \/ parse_parameter_list
    \/ parse_subroutine_body
    \/ parse_var_dec
    \/ parse_statements
    \/ parse_statement
    \/ parse_let_statement
    \/ parse_if_statement
    \/ parse_while_statement
    \/ parse_do_statement
    \/ parse_return_statement
    \/ parse_expression
    \/ parse_term
    \/ parse_subroutine_call
    \/ parse_expression_list

\* process_file: the tokens of a successful tokenization go to
\* Parser::new(&tokens), and parse_class is called
process_file_parse ==
    /\ tres.tag = "Ok"
    /\ pres = Pending /\ stack = <<>>
    /\ ptokens' = tres.val
    /\ position' = 0
    /\ stack' = <<Frame("parse_class", "start", NoLocals)>>
    /\ UNCHANGED <<ret, pres>>
    /\ UNCHANGED tvars

(***************************************************************************)
(* Inputs of the tokenizer specification: every text of at most MaxLen     *)
(* characters over TokAlphabet, and the integer literals around the        *)
(* boundaries, each behind 0..MaxLead newlines.                            *)
(***************************************************************************)
MaxLen == 4
MaxLead == 2

TokAlphabet == {"/", "*", "\n", "\"", "a", "7", " ", "#"}

RECURSIVE TextsOfLen(_)
TextsOfLen(n) ==
    IF n = 0 THEN {<<>>}
    ELSE {Append(t, c) : t \in TextsOfLen(n - 1), c \in TokAlphabet}

ShortTexts == UNION {TextsOfLen(n) : n \in 0..MaxLen}

DigitChar(d) ==
    CASE d = 0 -> "0" [] d = 1 -> "1" [] d = 2 -> "2" [] d = 3 -> "3"
      [] d = 4 -> "4" [] d = 5 -> "5" [] d = 6 -> "6" [] d = 7 -> "7"
      [] d = 8 -> "8" [] d = 9 -> "9"

\* The decimal digits of n, most significant first
RECURSIVE Decimal(_)
Decimal(n) ==
    IF n < 10 THEN <<DigitChar(n)>>
    ELSE Append(Decimal(n \div 10), DigitChar(n % 10))

RECURSIVE Newlines(_)
Newlines(n) == IF n = 0 THEN <<>> ELSE <<"\n">> \o Newlines(n - 1)

BoundaryNumbers == {0, 9, 32766, 32767, 32768, 32769, 65535, 65536, 99999}

NumberTexts ==
    {Newlines(k) \o z \o Decimal(n) \o t :
        k \in 0..MaxLead, z \in {<<>>, <<"0">>}, n \in BoundaryNumbers,
        t \in {<<>>, <<";">>, <<"\n">>}}

\* Comments and strings that start on a later line and run over line ends
RECURSIVE TextsOver(_, _)
TextsOver(A, n) ==
    IF n = 0 THEN {<<>>}
    ELSE TextsOver(A, n - 1) \cup
         {Append(t, c) : t \in {t \in TextsOver(A, n - 1) : Len(t) = n - 1}, c \in A}

CommentTexts ==
    {Newlines(k) \o <<"a", "\n", "/", "*">> \o b :
        k \in 0..MaxLead, b \in TextsOver({"\n", "*", "/"}, MaxLen)}

StringTexts ==
    {Newlines(k) \o <<"a", "\n", "\"">> \o b :
        k \in 0..MaxLead, b \in TextsOver({"\n", "\"", "/", "b"}, MaxLen)}

\* Quotes within comments and comment openers within strings: a comment opener
\* or a quote, and any text over the characters that open and close the three
\* behind it
InterferenceTexts ==
    {o \o b : o \in {<<"/", "/">>, <<"/", "*">>, <<"\"">>},
              b \in TextsOver({"/", "*", "\"", "\n", "a"}, MaxLen)}

\* "/*//" /*"//*/ //"/*
InterferenceSample ==
    <<"\"", "/", "*", "/", "/", "\"", " ", "/", "*", "\"", "/", "/", "*", "/", " ",
      "/", "/", "\"", "/", "*">>

\* "/*"*/
InterferenceClosed == <<"\"", "/", "*", "\"", "*", "/">>

TokInputs ==
    ShortTexts \cup NumberTexts \cup CommentTexts \cup StringTexts
    \cup InterferenceTexts \cup {InterferenceSample, InterferenceClosed}

TokInit ==
    /\ \E content \in TokInputs : TokenizerStart(content)
    /\ ParserIdle

TokNext == tokenizer

TokSpec == TokInit /\ [][TokNext]_vars

(***************************************************************************)
(* Properties of the tokenizer, checked under TokSpec.                     *)
(***************************************************************************)
\* The number of newline characters among the first k characters of the text
NewlinesBefore(k) == Cardinality({j \in 1..k : chars[j] = "\n"})

TokReturned == tpc = "returned"

\* C1: a run of decimal digits of value 32767 yields one integer-literal token
\* of value 32767, and a run of value 32768 (any value above 32767) yields no
\* tokens but an error citing the 1-based line of the literal.
C1_IntegerLiteralRange ==
    TokReturned =>
        \A k \in 0..MaxLead, z \in {<<>>, <<"0">>}, n \in BoundaryNumbers :
            chars = Newlines(k) \o z \o Decimal(n) =>
                IF n <= 32767
                THEN tres = Ok(<<Token(IntTok(n), z \o Decimal(n), k + 1)>>)
                ELSE tres.tag = "Err" /\ tres.err.line = k + 1

\* Whether a `*/` starts at or after 0-based index k
HasCloserFrom(k) ==
    \E j \in k..(NChars - 2) : CharAt(j) = "*" /\ CharAt(j + 1) = "/"

\* C2: when a block comment is opened and no `*/` follows it, the tokenizer
\* returns an error, never a token sequence, and the error's line is the
\* 1-based line on which the `/*` starts, however many newlines follow it.
C2_UnterminatedBlockComment ==
    [][ /\ (tpc = "main" /\ tpc' = "block_comment")
            => start_line' = 1 + NewlinesBefore(i)
        /\ (tpc = "block_comment" /\ ~HasCloserFrom(i))
            => \/ /\ tpc' = "block_comment"
                  /\ tres' = Pending
                  /\ start_line' = start_line
               \/ /\ tpc' = "returned"
                  /\ tres' = Err([msg |-> "Unterminated multi-line comment starting on line",
                                  line |-> start_line])
      ]_vars

\* An unterminated block comment that starts on line 3 was reported, and two
\* newlines lie between its start and the end of the input
C2_Witness ==
    /\ tres.tag = "Err"
    /\ tres.err.msg = "Unterminated multi-line comment starting on line"
    /\ tres.err.line = 3
    /\ line_number = 5

\* In a string scan: the 0-based index of the opening quote, the last quote
\* before the cursor
OpenQuote ==
    CHOOSE k \in 0..(i - 1) :
        /\ CharAt(k) = "\""
        /\ \A j \in (k + 1)..(i - 1) : CharAt(j) # "\""

\* The 0-based index of the first quote or newline after the opening quote, or
\* the length of the text when there is none
StringEnd ==
    CHOOSE j \in (OpenQuote + 1)..NChars :
        /\ j = NChars \/ CharAt(j) \in {"\"", "\n"}
        /\ \A k \in (OpenQuote + 1)..(j - 1) : CharAt(k) \notin {"\"", "\n"}

StringClosed == StringEnd < NChars /\ CharAt(StringEnd) = "\""

StringLexeme == SubSeq(chars, OpenQuote + 2, StringEnd)

\* C3: an opening quote followed by a newline or by the end of the input before
\* the next quote gives an error citing the line of the opening quote; a quote
\* closed on its line gives exactly one string-literal token whose lexeme is
\* the characters strictly between the two quotes.
C3_StringLiteral ==
    [][ tpc = "string" =>
          \/ /\ tpc' = "string"
             /\ i' <= StringEnd
             /\ tokens' = tokens
             /\ tres' = Pending
          \/ /\ StringClosed
             /\ tpc' = "main"
             /\ i' = StringEnd + 1
             /\ tokens' = Append(tokens, Token(StrTok(StringLexeme), StringLexeme,
                                               1 + NewlinesBefore(OpenQuote)))
             /\ tres' = Pending
          \/ /\ ~StringClosed
             /\ tpc' = "returned"
             /\ tres' = Err([msg |-> "Unterminated string on line",
                             line |-> 1 + NewlinesBefore(OpenQuote)])
      ]_vars

\* A string literal on the third line was tokenized, its lexeme the two
\* characters between its quotes, which are no comment
C3_Witness ==
    /\ tres.tag = "Ok"
    /\ Len(tres.val) = 2
    /\ tres.val[2] = Token(StrTok(<<"/", "/">>), <<"/", "/">>, 3)

\* The token pushed last, and the 0-based index of its first character: the
\* cursor stands right behind the token, whose text is its lexeme, and for a
\* string literal the two quotes around it
LastToken == tokens[Len(tokens)]

LastTokenStart ==
    i - Len(LastToken.value) - (IF LastToken.token_type.tag = "StrConst" THEN 2 ELSE 0)

\* A step of the tokenizer pushes at most one token, behind the others, with
\* the line of its first character; what it returns is what it has pushed
TokenPushStep ==
    /\ IF Len(tokens') = Len(tokens)
       THEN tokens' = tokens
       ELSE /\ Len(tokens') = Len(tokens) + 1
            /\ SubSeq(tokens', 1, Len(tokens)) = tokens
            /\ LastTokenStart' >= 0
            /\ chars[LastTokenStart' + 1]
                   = (IF LastToken'.token_type.tag = "StrConst"
                      THEN "\"" ELSE LastToken'.value[1])
            /\ LastToken'.line_number = 1 + NewlinesBefore(LastTokenStart')
    /\ tres'.tag = "Ok" => tres'.val = tokens'

\* The running line counter counts the newlines behind the cursor
LineCounter == line_number = 1 + NewlinesBefore(i)

LinesAscend ==
    \A k \in 1..Len(tokens) :
        /\ tokens[k].line_number >= 1
        /\ k > 1 => tokens[k - 1].line_number <= tokens[k].line_number

\* C12: in every token sequence the tokenizer returns, the line number of each
\* token is 1 plus the number of newline characters before the token's first
\* character in the input, those inside block comments and at the end of line
\* comments included; so the line numbers are at least 1 and never decrease
\* along the sequence.
C12_LineNumbers ==
    /\ [][TokenPushStep]_vars
    /\ [](LineCounter /\ LinesAscend)

\* Two leading newlines, `a`, a newline, a block comment over one more newline,
\* and the symbol `/` behind it, on line 5
C12_Witness ==
    /\ chars = <<"\n", "\n", "a", "\n", "/", "*", "\n", "*", "/", "/">>
    /\ tres = Ok(<<Token(IdTok(<<"a">>), <<"a">>, 3), Token(SymTok("/"), <<"/">>, 5)>>)

\* The steps of the scan of a string literal over `/` and `*`, and of the
\* scans of the two comments over `"`
InterferenceStep ==
    /\ (tpc = "string" /\ i < NChars /\ CharAt(i) \in {"/", "*"}) =>
           /\ tpc' = "string"
           /\ i' = i + 1
           /\ buf' = Append(buf, CharAt(i))
           /\ tokens' = tokens
           /\ tres' = Pending
    /\ tpc = "string" => tpc' \in {"string", "main", "returned"}
    /\ (tpc = "string" /\ tpc' = "main") =>
           /\ LastToken'.token_type = StrTok(LastToken'.value)
           /\ LastToken'.value = SubSeq(chars, LastTokenStart' + 2, i' - 1)
           /\ chars[i'] = "\""
    /\ (tpc = "line_comment" /\ i < NChars /\ CharAt(i) = "\"") =>
           /\ tpc' = "line_comment"
           /\ i' = i + 1
           /\ tres' = Pending
    /\ (tpc = "block_comment" /\ i < NChars /\ CharAt(i) = "\"") =>
           \/ /\ tpc' = "block_comment"
              /\ i' = i + 1
              /\ tres' = Pending
           \/ /\ i + 1 = NChars
              /\ tpc' = "returned"
              /\ tres' = Err([msg |-> "Unterminated multi-line comment starting on line",
                              line |-> start_line])
    /\ tpc \in {"line_comment", "block_comment"} =>
           /\ tokens' = tokens
           /\ tpc' \in {tpc, "main", "returned"}

\* What the tokenizer returns for texts of quotes and comment openers
InterferenceCases ==
    TokReturned =>
        /\ chars = <<"\"", "/", "/", "\"">>
               => tres = Ok(<<Token(StrTok(<<"/", "/">>), <<"/", "/">>, 1)>>)
        /\ chars = <<"\"", "/", "*", "\"">>
               => tres = Ok(<<Token(StrTok(<<"/", "*">>), <<"/", "*">>, 1)>>)
        /\ chars = InterferenceClosed
               => /\ tres.tag = "Ok"
                  /\ [k \in 1..Len(tres.val) |-> tres.val[k].token_type]
                         = <<StrTok(<<"/", "*">>), SymTok("*"), SymTok("/")>>
        /\ chars = <<"/", "/", "\"", "a", "\"">> => tres = Ok(<<>>)
        /\ chars = <<"/", "/", "\"">> => tres = Ok(<<>>)
        /\ chars = <<"/", "/", "\"", "\n", "a">>
               => tres = Ok(<<Token(IdTok(<<"a">>), <<"a">>, 2)>>)
        /\ chars = <<"/", "*", "\"", "*", "/">> => tres = Ok(<<>>)
        /\ chars = <<"/", "*", "\"", "*", "/", "a">>
               => tres = Ok(<<Token(IdTok(<<"a">>), <<"a">>, 1)>>)
        /\ chars = InterferenceSample
               => tres = Ok(<<Token(StrTok(<<"/", "*", "/", "/">>),
                                    <<"/", "*", "/", "/">>, 1)>>)

\* C15: comment and string recognition do not interfere: `//` and `/*` between
\* the quotes of a string literal stay part of its lexeme and start no comment,
\* and a double quote inside a line comment or a block comment starts no string
\* literal and emits no token.
C15_NoInterference ==
    /\ [][InterferenceStep]_vars
    /\ []InterferenceCases

\* The string "/*//", a block comment with a quote and `//` in it and a line
\* comment with a quote and `/*` in it gave the one string-literal token
C15_Witness ==
    /\ chars = InterferenceSample
    /\ tres.tag = "Ok"
    /\ Len(tres.val) = 1
    /\ tres.val[1].value = <<"/", "*", "/", "/">>

(***************************************************************************)
(* Source texts for the whole pipeline.  A text is written as its words    *)
(* (each a sequence of characters) and joined with single spaces.          *)
(***************************************************************************)
W_class == <<"c", "l", "a", "s", "s">>
W_constructor == <<"c", "o", "n", "s", "t", "r", "u", "c", "t", "o", "r">>
W_function == <<"f", "u", "n", "c", "t", "i", "o", "n">>
W_method == <<"m", "e", "t", "h", "o", "d">>
W_field == <<"f", "i", "e", "l", "d">>
W_static == <<"s", "t", "a", "t", "i", "c">>
W_var == <<"v", "a", "r">>
W_int == <<"i", "n", "t">>
W_char == <<"c", "h", "a", "r">>
W_boolean == <<"b", "o", "o", "l", "e", "a", "n">>
W_void == <<"v", "o", "i", "d">>
W_true == <<"t", "r", "u", "e">>
W_false == <<"f", "a", "l", "s", "e">>
W_null == <<"n", "u", "l", "l">>
W_this == <<"t", "h", "i", "s">>
W_let == <<"l", "e", "t">>
W_do == <<"d", "o">>
W_if == <<"i", "f">>
W_else == <<"e", "l", "s", "e">>
W_while == <<"w", "h", "i", "l", "e">>
W_return == <<"r", "e", "t", "u", "r", "n">>
W_Main == <<"M", "a", "i", "n">>
W_main == <<"m", "a", "i", "n">>
W_Foo == <<"F", "o", "o">>
W_new == <<"n", "e", "w">>
W_a == <<"a">>
W_b == <<"b">>
W_c == <<"c">>
W_f == <<"f">>
W_g == <<"g">>
W_x == <<"x">>
W_y == <<"y">>
W_str == <<"\"", "h", "i", "\"">>

RECURSIVE Join(_)
Join(ws) ==
    IF ws = <<>> THEN <<>>
    ELSE IF Len(ws) = 1 THEN ws[1]
    ELSE LET half == Len(ws) \div 2
         IN  Join(SubSeq(ws, 1, half)) \o <<" ">> \o Join(SubSeq(ws, half + 1, Len(ws)))

RECURSIVE Concat(_)
Concat(ss) == IF ss = <<>> THEN <<>> ELSE ss[1] \o Concat(Tail(ss))

RECURSIVE SeqsUpTo(_, _)
SeqsUpTo(S, n) ==
    IF n = 0 THEN {<<>>}
    ELSE SeqsUpTo(S, n - 1) \cup
         {Append(q, x) : q \in {q \in SeqsUpTo(S, n - 1) : Len(q) = n - 1}, x \in S}

\* The statements the generated bodies are made of
StatementPool ==
    { <<W_let, W_x, <<"=">>, <<"1">>, <<";">>>>,
      <<W_let, W_x, <<"[">>, <<"1">>, <<"+">>, <<"2">>, <<"]">>, <<"=">>, <<"3">>, <<";">>>>,
      <<W_if, <<"(">>, W_x, <<")">>, <<"{">>, <<"}">>>>,
      <<W_if, <<"(">>, W_x, <<")">>, <<"{">>, <<"}">>, W_else, <<"{">>, <<"}">>>>,
      <<W_if, <<"(">>, W_x, <<"<">>, <<"2">>, <<")">>, <<"{">>, W_return, <<";">>, <<"}">>,
        W_else, <<"{">>, W_do, W_f, <<"(">>, <<")">>, <<";">>, W_let, W_y, <<"=">>, W_str,
        <<";">>, <<"}">>>>,
      <<W_while, <<"(">>, <<"~">>, W_x, <<")">>, <<"{">>, W_let, W_x, <<"=">>, W_x,
        <<"-">>, <<"1">>, <<";">>, <<"}">>>>,
      <<W_do, W_a, <<".">>, W_g, <<"(">>, W_x, <<",">>, W_y, <<"[">>, <<"2">>, <<"]">>,
        <<",">>, <<"(">>, W_null, <<")">>, <<")">>, <<";">>>>,
      <<W_let, W_y, <<"=">>, W_f, <<"(">>, W_this, <<")">>, <<";">>>>,
      <<W_return, <<";">>>>,
      <<W_return, <<"-">>, W_x, <<";">>>> }

\* The most statements a generated body holds
MaxStmts == 2

Bodies == {Concat(q) : q \in SeqsUpTo(StatementPool, MaxStmts)}

\* class Main { function void main ( ) { body } }
InMain(body) ==
    <<W_class, W_Main, <<"{">>, W_function, W_void, W_main, <<"(">>, <<")">>, <<"{">>>>
    \o body \o <<<<"}">>, <<"}">>>>

StatementPrograms == {InMain(b) : b \in Bodies}

\* let x = 1 op 2 op 3 ... ; with every choice of binary operators
OperatorWords == {<<"+">>, <<"-">>, <<"*">>, <<"/">>, <<"&">>, <<"|">>, <<"<">>,
                  <<">">>, <<"=">>}

\* The most binary operators a generated expression holds
MaxOps == 2

OperandWord(k) == Decimal(k)

RECURSIVE OperatorChain(_, _)
OperatorChain(ops, k) ==
    IF ops = <<>> THEN <<>>
    ELSE <<ops[1], OperandWord(k)>> \o OperatorChain(Tail(ops), k + 1)

ExpressionProgram(ops) ==
    InMain(<<W_let, W_x, <<"=">>, OperandWord(1)>> \o OperatorChain(ops, 2) \o <<<<";">>>>)

OperatorChoices == SeqsUpTo(OperatorWords, MaxOps)

ExpressionPrograms == {ExpressionProgram(ops) : ops \in OperatorChoices}

\* Declarations: class variables, subroutine headers, parameters, locals
ClassVarDecPool ==
    { <<>>,
      <<W_static, W_int, W_a, <<";">>>>,
      <<W_field, W_Foo, W_a, <<",">>, W_b, <<",">>, W_c, <<";">>,
        W_static, W_boolean, W_x, <<";">>, W_field, W_char, W_y, <<";">>>> }

SubroutinePool ==
    { <<W_constructor, W_Main, W_new, <<"(">>, <<")">>, <<"{">>, W_return, W_this,
        <<";">>, <<"}">>>>,
      <<W_method, W_int, W_f, <<"(">>, W_int, W_a, <<")">>, <<"{">>, W_var, W_int, W_x,
        <<";">>, W_return, W_a, <<";">>, <<"}">>>>,
      <<W_function, W_void, W_g, <<"(">>, W_Foo, W_a, <<",">>, W_boolean, W_b, <<",">>,
        W_char, W_c, <<")">>, <<"{">>, W_var, W_Foo, W_x, <<",">>, W_y, <<";">>,
        W_var, W_boolean, W_f, <<";">>, W_let, W_x, <<"=">>, W_a, <<";">>,
        W_do, W_g, <<"(">>, W_x, <<",">>, W_b, <<",">>, W_c, <<")">>, <<";">>,
        W_return, <<";">>, <<"}">>>> }

\* The most subroutines a generated class holds
MaxSubs == 2

DeclarationPrograms ==
    {<<W_class, W_Main, <<"{">>>> \o cvd \o Concat(subs) \o <<<<"}">>>> :
        cvd \in ClassVarDecPool, subs \in SeqsUpTo(SubroutinePool, MaxSubs)}

\* Broken programs: a well-formed one with one word left out, or cut short,
\* or followed by one more word
RichProgram ==
    <<W_class, W_Main, <<"{">>, W_field, W_Foo, W_a, <<",">>, W_b, <<";">>,
      W_method, W_int, W_f, <<"(">>, W_int, W_a, <<",">>, W_Foo, W_b, <<")">>, <<"{">>,
      W_var, W_int, W_x, <<",">>, W_y, <<";">>,
      W_let, W_x, <<"[">>, W_a, <<"]">>, <<"=">>, W_a, <<".">>, W_g, <<"(">>, W_x, <<",">>,
      <<"1">>, <<")">>, <<"+">>, W_y, <<"[">>, <<"2">>, <<"]">>, <<";">>,
      W_if, <<"(">>, <<"(">>, W_x, <<")">>, <<")">>, <<"{">>, W_do, W_f, <<"(">>, <<")">>,
      <<";">>, <<"}">>, W_else, <<"{">>, W_while, <<"(">>, W_true, <<")">>, <<"{">>, <<"}">>,
      <<"}">>, W_return, <<"-">>, W_x, <<";">>, <<"}">>, <<"}">>>>

Without(ws, k) == SubSeq(ws, 1, k - 1) \o SubSeq(ws, k + 1, Len(ws))

BrokenPrograms ==
    {Without(RichProgram, k) : k \in 1..Len(RichProgram)}
    \cup {SubSeq(RichProgram, 1, k) : k \in 0..Len(RichProgram)}
    \cup {Append(p, w) : p \in {RichProgram, InMain(<<W_return, <<";">>>>)},
                         w \in {<<"}">>, W_class, W_x}}
    \cup {InMain(b) : b \in { <<W_let, <<"=">>, <<"5">>, <<";">>>>,
                              <<W_do, <<"5">>, <<";">>>>,
                              <<W_let, W_x, <<"=">>, W_class, <<";">>>>,
                              <<W_var, W_void, W_x, <<";">>>>,
                              <<W_var, <<"1">>, W_x, <<";">>>> }}

\* Comments and line breaks between the words, and texts the tokenizer rejects
W_line_comment == <<"/", "/", " ", "l", "e", "t", "\"", "/", "*", "\n">>
W_block_comment == <<"/", "*", "*", " ", "\"", "/", "/", "\n", "i", "f", "\n", "*", "/">>
W_newline == <<"\n">>

LayoutPrograms ==
    { <<W_line_comment, W_class, W_Main, W_block_comment, <<"{">>, W_newline, W_function,
        W_void, W_main, <<"(">>, <<")">>, W_newline, <<"{">>, W_line_comment, W_return,
        <<";">>, W_block_comment, <<"}">>, <<"}">>, W_line_comment>>,
      InMain(<<W_let, W_x, <<"=">>, W_x, <<"/">>, <<"2">>, <<";">>, W_block_comment>>) }

RejectedTexts ==
    {InMain(<<W_return, <<";">>>>) \o <<w>> :
        w \in { <<"#">>, <<"/", "*", "\n", "*">>, <<"\"", "a">>, <<"\"", "a", "\n", "\"">>,
                <<"6", "5", "5", "3", "6">> }}

\* The scenarios of the specification, written as they stand there
\* class Main { function void main() { body } }
InMainText(body) ==
    <<W_class, W_Main, <<"{">>, W_function, W_void, W_main \o <<"(", ")">>, <<"{">>>>
    \o body \o <<<<"}">>, <<"}">>>>

\* class Main { function void main() { return; } }
ScenarioMain == InMainText(<<W_return \o <<";">>>>)

\* let x[1+2] = 3;
ScenarioLetIndex ==
    InMainText(<<W_let, W_x \o <<"[", "1", "+", "2", "]">>, <<"=">>, <<"3", ";">>>>)

\* let = 5;
ScenarioLetNoName == InMainText(<<W_let, <<"=">>, <<"5", ";">>>>)

\* if (x) { }   and   if (x) { } else { }
ScenarioIf == InMainText(<<W_if, <<"(">> \o W_x \o <<")">>, <<"{">>, <<"}">>>>)
ScenarioIfElse ==
    InMainText(<<W_if, <<"(">> \o W_x \o <<")">>, <<"{">>, <<"}">>, W_else, <<"{">>, <<"}">>>>)

Scenarios ==
    {ScenarioMain, ScenarioLetIndex, ScenarioLetNoName, ScenarioIf, ScenarioIfElse}

\* Terms within terms: unary operators in a row, terms after an operator,
\* expressions in conditions, indices, arguments and return values
NestedPrograms ==
    {InMain(b) : b \in
        { <<W_let, W_x, <<"=">>, <<"-">>, <<"~">>, <<"-">>, W_x, <<";">>>>,
          <<W_let, W_x, <<"=">>, <<"1">>, <<"+">>, <<"-">>, W_x, <<"*">>, W_f, <<"(">>,
            <<")">>, <<";">>>>,
          <<W_return, <<"(">>, <<"1">>, <<"<">>, W_x, <<")">>, <<"+">>, W_a, <<"[">>,
            <<"1">>, <<"+">>, <<"2">>, <<"]">>, <<"&">>, W_true, <<";">>>>,
          <<W_while, <<"(">>, W_x, <<"<">>, <<"1">>, <<"|">>, W_y, <<")">>, <<"{">>,
            W_if, <<"(">>, W_x, <<"=">>, <<"2">>, <<")">>, <<"{">>, <<"}">>, <<"}">>>>,
          <<W_do, W_f, <<"(">>, <<"1">>, <<"+">>, <<"2">>, <<",">>, <<"-">>, W_x, <<",">>,
            W_g, <<"(">>, W_y, <<")">>, <<"+">>, <<"1">>, <<")">>, <<";">>>> }}

Programs ==
    StatementPrograms \cup ExpressionPrograms \cup DeclarationPrograms
    \cup BrokenPrograms \cup LayoutPrograms \cup RejectedTexts \cup Scenarios
    \cup NestedPrograms

Init ==
    /\ \E p \in Programs : TokenizerStart(Join(p))
    /\ ParserIdle

Next == tokenizer \/ process_file_parse \/ parser

Spec == Init /\ [][Next]_vars

(***************************************************************************)
(* Properties of the pipeline, checked under Spec.                         *)
(***************************************************************************)
\* The AST of `return;`
ReturnNothing == StatementNode("Return", ReturnStatementNode(None))

\* The AST of class Main { function void main() { statements } }
MainClass(statements) ==
    ClassNode(W_Main, <<>>,
              <<SubroutineDecNode("Function", None, W_main, <<>>,
                                  SubroutineBodyNode(<<>>, statements))>>)

ParseReturned == pres # Pending

\* C4: tokenizing and parsing `class Main { function void main() { return; } }`
\* succeeds with a Class named "Main", no class-variable declarations and one
\* subroutine declaration: a Function named "main", void, with no parameters,
\* no local variables and the single statement Return with no value; and the
\* name of every parsed Class is the declared class identifier.
C4_MainScenario ==
    /\ (chars = Join(ScenarioMain) /\ TokReturned) => tres.tag = "Ok"
    /\ (chars = Join(ScenarioMain) /\ ParseReturned)
           => pres = Ok(MainClass(<<ReturnNothing>>))
    /\ pres.tag = "Ok" => pres.val.name = ptokens[2].token_type.name

C4_Witness ==
    /\ chars = Join(ScenarioMain)
    /\ pres.tag = "Ok"
    /\ Len(pres.val.subroutine_decs) = 1

\* The token types of ScenarioMain
ScenarioMainTokenTypes ==
    <<KwTok("Class"), IdTok(W_Main), SymTok("{"), KwTok("Function"), KwTok("Void"),
      IdTok(W_main), SymTok("("), SymTok(")"), SymTok("{"), KwTok("Return"),
      SymTok(";"), SymTok("}"), SymTok("}")>>

\* C5 as stated: `class Main { function void main() { return; } }` tokenizes
\* into 12 tokens.
C5_TwelveTokens ==
    (chars = Join(ScenarioMain) /\ TokReturned)
        => (tres.tag = "Ok" /\ Len(tres.val) = 12)

\* C5 as amended: the text tokenizes into 13 tokens: class, Main, {, function,
\* void, main, (, ), {, return, ;, }, }.
C5_ThirteenTokens ==
    (chars = Join(ScenarioMain) /\ TokReturned)
        => /\ tres.tag = "Ok"
           /\ Len(tres.val) = 13
           /\ [k \in 1..13 |-> tres.val[k].token_type] = ScenarioMainTokenTypes

C5_Witness ==
    /\ chars = Join(ScenarioMain)
    /\ tres.tag = "Ok"
    /\ Len(tres.val) = 13

(***************************************************************************)
(* The token types an AST is written with, in source order.                *)
(***************************************************************************)
RECURSIVE CommaSeparated(_)
CommaSeparated(parts) ==
    IF parts = <<>> THEN <<>>
    ELSE IF Len(parts) = 1 THEN parts[1]
    ELSE parts[1] \o <<SymTok(",")>> \o CommaSeparated(Tail(parts))

UnparseType(t) == IF t.tag = "ClassName" THEN IdTok(t.name) ELSE KwTok(t.tag)

UnparseNames(names) ==
    CommaSeparated([k \in 1..Len(names) |-> <<IdTok(names[k])>>])

RECURSIVE UnparseExpression(_)
RECURSIVE UnparseOperations(_)
RECURSIVE UnparseTerm(_)
RECURSIVE UnparseCall(_)
RECURSIVE UnparseStatement(_)
RECURSIVE UnparseStatements(_)

UnparseExpression(e) == UnparseTerm(e.initial_term) \o UnparseOperations(e.operations)

UnparseOperations(ops) ==
    IF ops = <<>> THEN <<>>
    ELSE <<SymTok(ops[1][1])>> \o UnparseTerm(ops[1][2]) \o UnparseOperations(Tail(ops))

UnparseTerm(t) ==
    CASE t.tag = "IntConst" -> <<IntTok(t.int)>>
      [] t.tag = "StrConst" -> <<StrTok(t.str)>>
      [] t.tag = "KeywordConst" -> <<KwTok(t.kw)>>
      [] t.tag = "VarName" -> <<IdTok(t.name)>>
      [] t.tag = "ArrayAccess" ->
           <<IdTok(t.name), SymTok("[")>> \o UnparseExpression(t.index) \o <<SymTok("]")>>
      [] t.tag = "SubroutineCall" -> UnparseCall(t.call)
      [] t.tag = "Parenthesized" ->
           <<SymTok("(")>> \o UnparseExpression(t.expr) \o <<SymTok(")")>>
      [] t.tag = "UnaryOp" -> <<SymTok(t.op)>> \o UnparseTerm(t.term)

UnparseCall(c) ==
    (IF c.receiver.some THEN <<IdTok(c.receiver.val), SymTok(".")>> ELSE <<>>)
    \o <<IdTok(c.name), SymTok("(")>>
    \o CommaSeparated([k \in 1..Len(c.args) |-> UnparseExpression(c.args[k])])
    \o <<SymTok(")")>>

UnparseStatement(s) ==
    CASE s.tag = "Let" ->
           <<KwTok("Let"), IdTok(s.node.var_name)>>
           \o (IF s.node.index_expr.some
               THEN <<SymTok("[")>> \o UnparseExpression(s.node.index_expr.val)
                    \o <<SymTok("]")>>
               ELSE <<>>)
           \o <<SymTok("=")>> \o UnparseExpression(s.node.value_expr) \o <<SymTok(";")>>
      [] s.tag = "If" ->
           <<KwTok("If"), SymTok("(")>> \o UnparseExpression(s.node.condition)
           \o <<SymTok(")"), SymTok("{")>> \o UnparseStatements(s.node.if_block)
           \o <<SymTok("}")>>
           \o (IF s.node.else_block.some
               THEN <<KwTok("Else"), SymTok("{")>>
                    \o UnparseStatements(s.node.else_block.val) \o <<SymTok("}")>>
               ELSE <<>>)
      [] s.tag = "While" ->
           <<KwTok("While"), SymTok("(")>> \o UnparseExpression(s.node.condition)
           \o <<SymTok(")"), SymTok("{")>> \o UnparseStatements(s.node.body)
           \o <<SymTok("}")>>
      [] s.tag = "Do" ->
           <<KwTok("Do")>> \o UnparseCall(s.node.call) \o <<SymTok(";")>>
      [] s.tag = "Return" ->
           <<KwTok("Return")>>
           \o (IF s.node.value.some THEN UnparseExpression(s.node.value.val) ELSE <<>>)
           \o <<SymTok(";")>>

UnparseStatements(ss) ==
    IF ss = <<>> THEN <<>>
    ELSE UnparseStatement(ss[1]) \o UnparseStatements(Tail(ss))

UnparseClassVarDec(d) ==
    <<KwTok(d.kind), UnparseType(d.var_type)>> \o UnparseNames(d.names) \o <<SymTok(";")>>

UnparseVarDec(d) ==
    <<KwTok("Var"), UnparseType(d.var_type)>> \o UnparseNames(d.names) \o <<SymTok(";")>>

UnparseSubroutineDec(d) ==
    <<KwTok(d.kind),
      IF d.return_type.some THEN UnparseType(d.return_type.val) ELSE KwTok("Void"),
      IdTok(d.name), SymTok("(")>>
    \o CommaSeparated([k \in 1..Len(d.parameters) |->
                          <<UnparseType(d.parameters[k][1]), IdTok(d.parameters[k][2])>>])
    \o <<SymTok(")"), SymTok("{")>>
    \o Concat([k \in 1..Len(d.body.var_decs) |-> UnparseVarDec(d.body.var_decs[k])])
    \o UnparseStatements(d.body.statements)
    \o <<SymTok("}")>>

UnparseClass(c) ==
    <<KwTok("Class"), IdTok(c.name), SymTok("{")>>
    \o Concat([k \in 1..Len(c.var_decs) |-> UnparseClassVarDec(c.var_decs[k])])
    \o Concat([k \in 1..Len(c.subroutine_decs) |->
                  UnparseSubroutineDec(c.subroutine_decs[k])])
    \o <<SymTok("}")>>

\* C6: when parse_class succeeds, every ordered list of the AST holds its
\* elements in the order of the token sequence, none dropped, duplicated or
\* reordered: writing the AST out list by list, in order, gives back exactly
\* the tokens parse_class consumed.
C6_SourceOrder ==
    pres.tag = "Ok" =>
        UnparseClass(pres.val) = [k \in 1..position |-> ptokens[k].token_type]

\* A parsed class with two class-variable declarations, one of them with three
\* names, and a subroutine with three parameters, two local declarations,
\* three statements and a call with three arguments
C6_Witness ==
    /\ pres.tag = "Ok"
    /\ Len(pres.val.var_decs) >= 2
    /\ Len(pres.val.var_decs[1].names) = 3
    /\ \E k \in 1..Len(pres.val.subroutine_decs) :
          LET d == pres.val.subroutine_decs[k]
          IN  /\ Len(d.parameters) = 3
              /\ Len(d.body.var_decs) = 2
              /\ Len(d.body.statements) = 3
              /\ d.body.statements[2].tag = "Do"
              /\ Len(d.body.statements[2].node.call.args) = 3

\* x as an expression
VarX == ExpressionNode(TermVarName(W_x), <<>>)

IfNode(else_block) == StatementNode("If", IfStatementNode(VarX, <<>>, else_block))

\* parse_if_statement stands right after the closing brace of the then-block
AfterThenBlock == Running("parse_if_statement") /\ Top.pc = "else"

NextIsElse == peek.some /\ peek.val.token_type = KwTok("Else")

\* parse_if_statement returns in this step
IfReturns ==
    /\ Running("parse_if_statement")
    /\ pres' = Pending
    /\ stack' = Callers

ElseBlockStep ==
    /\ (AfterThenBlock /\ NextIsElse) =>
           /\ position' = position + 1
           /\ Len(stack') = Len(stack)
           /\ stack'[Len(stack')].fn = "parse_if_statement"
           /\ stack'[Len(stack')].pc = "else_lbrace"
    /\ (AfterThenBlock /\ ~NextIsElse) =>
           /\ IfReturns
           /\ position' = position
           /\ ret'.else_block = None
    /\ IfReturns =>
           /\ ret'.else_block.some <=> Top.pc = "else_rbrace"
           /\ ret'.else_block.some => ret'.else_block.val = ret
           /\ ~ret'.else_block.some => (AfterThenBlock /\ ~NextIsElse)

\* the else branch of parse_if_statement is entered over the keyword `else` only
InElseBranch ==
    (Running("parse_if_statement") /\ Top.pc = "else_lbrace")
        => (position > 0 /\ ptokens[position].token_type = KwTok("Else"))

\* C7: parse_if_statement yields else_block absent exactly when the token right
\* after the closing brace of the then-block is not the keyword `else`, and
\* that token is then left unconsumed; it yields else_block present exactly
\* when the token is `else`, which it consumes; `if (x) { }` gives an absent
\* else_block and `if (x) { } else { }` a present, empty one, and the two differ.
C7_ElseBlock ==
    /\ [][ElseBlockStep]_vars
    /\ []InElseBranch
    /\ []((chars = Join(ScenarioIf) /\ ParseReturned)
             => pres = Ok(MainClass(<<IfNode(None)>>)))
    /\ []((chars = Join(ScenarioIfElse) /\ ParseReturned)
             => pres = Ok(MainClass(<<IfNode(Some(<<>>))>>)))
    /\ [](Some(<<>>) # None)

C7_Witness ==
    /\ pres.tag = "Ok"
    /\ Len(pres.val.subroutine_decs) = 1
    /\ pres.val.subroutine_decs[1].body.statements = <<IfNode(None), IfNode(Some(<<>>))>>

\* The flat expression 1 op 2 op 3 ...
FlatExpression(ops) ==
    ExpressionNode(TermIntConst(1),
                   [j \in 1..Len(ops) |-> <<ops[j][1], TermIntConst(j + 1)>>])

LetNode(index_expr, value_expr) ==
    StatementNode("Let", LetStatementNode(W_x, index_expr, value_expr))

ExpressionTexts == [ops \in OperatorChoices |-> Join(ExpressionProgram(ops))]

\* C8: parse_expression builds a flat expression: the first term, then one
\* (operator, term) pair per binary operator of + - * / & | < > = in source
\* order, with no grouping by precedence; `let x[1+2] = 3;` parses to a Let of
\* x with index expression 1 followed by the one operation ('+', 2) and value
\* expression 3 with no operations.
C8_FlatExpression ==
    ParseReturned =>
        /\ \A ops \in OperatorChoices :
               chars = ExpressionTexts[ops]
                   => pres = Ok(MainClass(<<LetNode(None, FlatExpression(ops))>>))
        /\ chars = Join(ScenarioLetIndex)
               => pres = Ok(MainClass(<<LetNode(
                              Some(ExpressionNode(TermIntConst(1),
                                                  <<<<"+", TermIntConst(2)>>>>)),
                              ExpressionNode(TermIntConst(3), <<>>))>>))

C8_Witness ==
    /\ chars = ExpressionTexts[<< <<"+">>, <<"*">> >>]
    /\ pres.tag = "Ok"
    /\ pres.val.subroutine_decs[1].body.statements[1].node.value_expr.operations
           = <<<<"+", TermIntConst(2)>>, <<"*", TermIntConst(3)>>>>

\* The points of the grammar where the parser calls expect_identifier on a token
\* it has not looked at
IdentifierPoints ==
    {<<"parse_class", "name">>,
     <<"parse_class_var_dec", "var_type">>, <<"parse_class_var_dec", "name">>,
     <<"parse_subroutine_dec", "name">>,
     <<"parse_parameter_list", "p_name">>,
     <<"parse_var_dec", "var_type">>, <<"parse_var_dec", "name">>,
     <<"parse_let_statement", "var_name">>,
     <<"parse_subroutine_call", "start">>, <<"parse_subroutine_call", "name">>}

ExpectsIdentifier ==
    /\ pres = Pending
    /\ stack # <<>>
    /\ <<Top.fn, Top.pc>> \in IdentifierPoints

AtIdentifier == peek.some /\ peek.val.token_type.tag = "Identifier"

ExpectedIdentifierError ==
    IF peek.some
    THEN [msg |-> "Expected identifier, but found", found |-> peek.val]
    ELSE [msg |-> "Expected identifier, but found EOF"]

ExpectedIdentifierStep ==
    /\ (ExpectsIdentifier /\ ~AtIdentifier) =>
           /\ pres' = Err(ExpectedIdentifierError)
           /\ position' = position
           /\ stack' = <<>>
    /\ pres.tag = "Err" => pres' = pres

\* C9: whenever the parser expects an identifier and the current token is not
\* one, the parse fails in that step with an error that names an identifier as
\* expected and reports the token found, or end of input when no token is left;
\* the cursor stays on the failing token and the result stays the error;
\* `let = 5;` fails with expected identifier and found the symbol `=`.
C9_ExpectedIdentifier ==
    /\ [][ExpectedIdentifierStep]_vars
    /\ []((chars = Join(ScenarioLetNoName) /\ ParseReturned)
             => /\ pres = Err([msg |-> "Expected identifier, but found",
                               found |-> Token(SymTok("="), <<"=">>, 1)])
                /\ ptokens[position + 1].token_type = SymTok("="))

C9_Witness ==
    /\ chars = Join(ScenarioLetNoName)
    /\ pres.tag = "Err"
    /\ position = 10

(***************************************************************************)
(* The terms that start with an identifier.                                *)
(***************************************************************************)
\* parse_term stands at its first test, on an identifier
TermAtIdentifier == Running("parse_term") /\ Top.pc = "start" /\ AtIdentifier

\* the token at 0-based index k is the symbol c
SymbolAt(k, c) == k < Len(ptokens) /\ ptokens[k + 1].token_type = SymTok(c)

\* The step parse_term takes on an identifier, by the token after it
TermLookaheadStep ==
    TermAtIdentifier =>
        LET name == ptokens[position + 1].token_type.name
        IN  /\ pres' = Pending
            /\ IF SymbolAt(position + 1, "(") \/ SymbolAt(position + 1, ".")
               THEN /\ position' = position
                    /\ Len(stack') = Len(stack) + 1
                    /\ stack'[Len(stack)].fn = "parse_term"
                    /\ stack'[Len(stack)].pc = "call"
                    /\ stack'[Len(stack')].fn = "parse_subroutine_call"
                    /\ stack'[Len(stack')].pc = "start"
               ELSE IF SymbolAt(position + 1, "[")
               THEN /\ position' = position + 1
                    /\ Len(stack') = Len(stack)
                    /\ stack'[Len(stack')].fn = "parse_term"
                    /\ stack'[Len(stack')].pc = "array_lbracket"
                    /\ stack'[Len(stack')].v.name = name
               ELSE /\ position' = position + 1
                    /\ Len(stack') = Len(stack) - 1
                    /\ ret'.tag = "VarName"
                    /\ ret'.name = name

\* parse_term returns a term in this step
TermReturns == Running("parse_term") /\ pres' = Pending /\ Len(stack') < Len(stack)

\* The term parse_term returns, against the tokens it was read from: the term
\* starts as many tokens before the cursor as it is written with
TermReturnStep ==
    TermReturns =>
        LET t == ret'
            n == Len(UnparseTerm(t))
            s == position' - n
        IN  /\ s >= 0
            /\ ptokens[s + 1].token_type.tag = "Identifier" =>
                   LET name == ptokens[s + 1].token_type.name
                       call == SymbolAt(s + 1, "(") \/ SymbolAt(s + 1, ".")
                       index == SymbolAt(s + 1, "[")
                   IN  /\ t.tag \in {"SubroutineCall", "ArrayAccess", "VarName"}
                       /\ t.tag = "SubroutineCall" <=> call
                       /\ t.tag = "ArrayAccess" <=> index
                       /\ t.tag = "VarName" <=> (~call /\ ~index)
                       /\ t.tag = "SubroutineCall" =>
                              name = IF t.call.receiver.some
                                     THEN t.call.receiver.val ELSE t.call.name
                       /\ t.tag = "ArrayAccess" =>
                              /\ t.name = name
                              /\ UnparseExpression(t.index)
                                     = [k \in 1..(n - 3) |-> ptokens[s + 2 + k].token_type]
                              /\ ptokens[position'].token_type = SymTok("]")
                       /\ t.tag = "VarName" => (t.name = name /\ n = 1)

\* C11: in parse_term on an identifier, the token right after it alone decides
\* the term: the symbol `(` or `.` gives a SubroutineCall, the symbol `[` an
\* ArrayAccess of that name with the bracketed expression, and any other token
\* or the end of the input a VarName that consumes exactly one token.
C11_TermLookahead == [][TermLookaheadStep /\ TermReturnStep]_vars

\* `let x[a] = a.g(x, 1) + y[2];` was parsed: a variable, a call and an array
\* access, each from an identifier
C11_Witness ==
    /\ chars = Join(RichProgram)
    /\ pres.tag = "Ok"
    /\ LET let == pres.val.subroutine_decs[1].body.statements[1].node
       IN  /\ let.index_expr.val.initial_term = TermVarName(W_a)
           /\ let.value_expr.initial_term.tag = "SubroutineCall"
           /\ let.value_expr.operations[1][2].tag = "ArrayAccess"
           /\ let.value_expr.operations[1][2].name = W_y

(***************************************************************************)
(* Termination.  Every text of TokInputs and of Programs is tokenized and, *)
(* when that succeeds, parsed.                                             *)
(***************************************************************************)
AllInit == Init \/ TokInit

AllSpec == AllInit /\ [][Next]_vars

\* The inner scans of the tokenizer
Scans == {"line_comment", "block_comment", "string", "integer", "identifier"}

\* What is left of the text, and within one position of the cursor the part
\* of the main loop's iteration that is still to run
TokVariant ==
    IF tpc = "returned" THEN 0
    ELSE 3 * (NChars - i)
         + (CASE tpc = "main" -> 2
              [] tpc \in {"integer", "identifier"} /\ buf = <<>> -> 1
              [] OTHER -> 3)
         + 1

TokenizerProgress ==
    tpc # "returned" =>
        /\ i' >= i /\ i' <= NChars
        /\ (tpc = "main" /\ tpc' = "main") => i' > i
        /\ (tpc \in Scans /\ tpc' = tpc) => i' = i + 1
        /\ (tpc = "main" /\ tpc' \in Scans) => (i' > i \/ buf' = <<>>)
        /\ (tpc \in Scans /\ tpc' = "main" /\ tpc \in {"integer", "identifier"}) => buf # <<>>
        /\ TokVariant' < TokVariant

\* The loops that go on when a `,` or a binary operator is matched
MatchLoopHeads ==
    {<<"parse_class_var_dec", "names">>, <<"parse_var_dec", "names">>,
     <<"parse_parameter_list", "more">>, <<"parse_expression_list", "push">>,
     <<"parse_expression", "initial_term">>, <<"parse_expression", "push">>}

\* The loops that go on when a keyword is peeked, and run a callee on it
PeekLoopHeads ==
    {<<"parse_class", "var_decs">>, <<"parse_class", "subroutine_decs">>,
     <<"parse_subroutine_body", "var_decs">>,
     <<"parse_statements", "start">>, <<"parse_statements", "push">>}

LoopBodies ==
    {"parse_class_var_dec", "parse_subroutine_dec", "parse_var_dec", "parse_statement"}

StatementParsers ==
    {"parse_let_statement", "parse_if_statement", "parse_while_statement",
     "parse_do_statement", "parse_return_statement"}

ParserRunning == pres = Pending /\ stack # <<>>

\* the running call is over after this step
Leaves == Len(stack') < Len(stack)

ParserProgress ==
    ParserRunning =>
        /\ position' >= position /\ position' <= Len(ptokens)
        /\ <<Top.fn, Top.pc>> \in MatchLoopHeads =>
               (position' = position + 1 \/ Leaves)
        /\ <<Top.fn, Top.pc>> \in PeekLoopHeads =>
               \/ Leaves
               \/ /\ Len(stack') = Len(stack) + 1
                  /\ stack'[Len(stack')].pc = "start"
                  /\ \/ stack'[Len(stack')].fn \in LoopBodies
                     \/ /\ Top.fn = "parse_subroutine_body"
                        /\ stack'[Len(stack')].fn = "parse_statements"
               \/ /\ <<Top.fn, Top.pc>> = <<"parse_class", "var_decs">>
                  /\ Len(stack') = Len(stack)
                  /\ stack'[Len(stack')].pc = "subroutine_decs"
        /\ (Top.fn = "parse_statement" /\ Top.pc = "start") =>
               /\ pres' = Pending
               /\ stack'[Len(stack')].fn \in StatementParsers
               /\ stack'[Len(stack')].pc = "start"
        /\ (Top.fn \in (LoopBodies \cup StatementParsers) \ {"parse_statement"}
                /\ Top.pc = "start") =>
               /\ pres' = Pending
               /\ position' = position + 1

\* How many steps the running call can still take without moving the cursor,
\* by the point where it stands
TopWeight ==
    CASE Top.fn = "parse_class" ->
           (CASE Top.pc = "var_decs_push" -> 5
              [] Top.pc = "var_decs" -> 4
              [] Top.pc = "subroutine_decs_push" -> 4
              [] Top.pc = "subroutine_decs" -> 3
              [] OTHER -> 1)
      [] Top.fn = "parse_subroutine_dec" ->
           (CASE Top.pc = "return_type" -> 3
              [] Top.pc = "return_type_some" -> 2
              [] Top.pc = "body" -> 4
              [] OTHER -> 1)
      [] Top.fn = "parse_parameter_list" ->
           (CASE Top.pc = "start" -> 3 [] OTHER -> 1)
      [] Top.fn = "parse_subroutine_body" ->
           (CASE Top.pc = "var_decs_push" -> 8
              [] Top.pc = "var_decs" -> 7
              [] OTHER -> 1)
      [] Top.fn = "parse_statements" -> 5
      [] Top.fn = "parse_statement" ->
           (CASE Top.pc = "start" -> 3 [] OTHER -> 5)
      [] Top.fn = "parse_if_statement" ->
           (CASE Top.pc = "else" -> 5 [] OTHER -> 1)
      [] Top.fn = "parse_return_statement" ->
           (CASE Top.pc = "value" -> 9 [] OTHER -> 1)
      [] Top.fn = "parse_expression" ->
           (CASE Top.pc = "start" -> 7 [] OTHER -> 3)
      [] Top.fn = "parse_term" ->
           (CASE Top.pc = "start" -> 5
              [] Top.pc \in {"call", "unary"} -> 4
              [] OTHER -> 1)
      [] Top.fn = "parse_expression_list" ->
           (CASE Top.pc = "start" -> 9 [] OTHER -> 2)
      [] OTHER -> 1

\* The steps the parser can still take before the cursor must move
ParserVariant == IF stack = <<>> THEN 0 ELSE Len(stack) + TopWeight

\* Each step of the parser moves the cursor forward, or leaves it and comes
\* closer to the point where it must move or return
ParserVariantStep ==
    ParserRunning =>
        \/ position' > position
        \/ position' = position /\ ParserVariant' < ParserVariant

\* C10: the tokenizer terminates on every text and parse_class on every token
\* sequence: every iteration of the tokenizer's main loop and of its inner
\* scans, and every iteration of the parser's loops over declarations,
\* statements, comma lists and operator-term pairs, moves the cursor forward
\* or ends the call; the cursors never pass the end of their input, and with
\* every step of either function a natural-valued measure decreases, so that
\* no run goes on for ever.
C10_Termination ==
    /\ [][TokenizerProgress /\ ParserProgress /\ ParserVariantStep]_vars
    /\ [](i <= NChars /\ position <= Len(ptokens))

C10_Witness ==
    /\ pres.tag = "Ok"
    /\ position = Len(ptokens)
    /\ Len(ptokens) > 60
    /\ NChars > Len(ptokens)

(***************************************************************************)
(* The cursor of the parser.                                               *)
(***************************************************************************)
\* A step taken while parse_class runs, and one taken after it has returned
CursorStep ==
    /\ ParserRunning =>
           /\ position' >= position
           /\ position' <= position + 1
           /\ ptokens' = ptokens
    /\ ParseReturned =>
           /\ position' = position
           /\ ptokens' = ptokens

CursorInRange == 0 <= position /\ position <= Len(ptokens)

\* C13: in every state reachable during parse_class the cursor satisfies
\* 0 <= position <= number of tokens; no step decreases it, each step raises it
\* by at most one, and the token sequence is never changed.
C13_ForwardCursor ==
    /\ [][CursorStep]_vars
    /\ []CursorInRange

\* parse_class is still running with the cursor behind the last of more than
\* 60 tokens
C13_Witness ==
    /\ ParserRunning
    /\ position = Len(ptokens)
    /\ position > 60

\* C14: parse_class returns a Class only when the whole token sequence has been
\* consumed: on success the cursor equals the number of tokens, so a token
\* sequence with any token after the closing brace of the class is rejected.
C14_WholeInputConsumed == pres.tag = "Ok" => position = Len(ptokens)

====
